---- MODULE Spec2Model ----
(***************************************************************************)
(* Model of the pPXF orchestration of src/SPINS/run_ppxf.py.               *)
(*                                                                         *)
(*   Spec        the batch driver: run_stellar_populations / run_ppxf,     *)
(*               one action per statement group of the per-spectrum loop,  *)
(*               the result files of the log directory as state.           *)
(*   SpecMask    the bad-pixel mask of run_ppxf (lines 234-244) applied to *)
(*               bounded rebinned spectra.                                 *)
(*   SpecLoader  the spectrum loader of run_ppxf (lines 210-224) applied   *)
(*               to bounded input tables.                                  *)
(*                                                                         *)
(* File names are sequences of tokens ("a", ".fits", ...), so that the     *)
(* string operations of the driver (endswith, replace, sorted) are         *)
(* computed and not assumed.  Array indices are 0-based as in the source;  *)
(* element i of an array is a[i + 1] of the sequence that models it.       *)
(***************************************************************************)
EXTENDS Integers, Sequences, FiniteSets, TLC

VARIABLES
    \* ---- arguments of the call, fixed over re-invocations
    entry,      \* "run_ppxf" | "run_stellar_populations"
    ncompArg,   \* the ncomp the caller gives to the entry point
    dir,        \* os.listdir(data_dir): the set of file names
    test,       \* run_ppxf's parameter test
    \* ---- the process and the filesystem
    run,        \* number of invocations so far
    redo,       \* the redo flag of the current invocation
    pc,         \* position of the current invocation
    exc,        \* the exception that reached the caller, or "none"
    cwd,        \* process working directory
    cwd0,       \* run_ppxf's local cwd (line 169)
    logdir,     \* TRUE iff the log directory exists
    out,        \* result path -> the .pkl file at os.path.join(logdir, name + ".pkl")
    pngs,       \* names whose .png exists in the log directory
    \* ---- locals of run_stellar_populations / run_ppxf
    kwargs,     \* the keyword arguments handed to run_ppxf and on to ppxf
    ncomp,      \* run_ppxf's parameter ncomp
    nstars,     \* len(stars)
    ngas,       \* len(emission)
    templates,  \* the template columns handed to ppxf, by kind, or Unbound
    filenames,  \* the sorted list of .fits files
    i,          \* 1-based position in filenames
    pp,         \* the fit result being built for filenames[i]
    \* ---- history, read only by the properties
    fitcalls,   \* the file names the fitter was invoked for in this run
    failed,     \* the step and spectrum at which this run raised
    snap,       \* out when the current invocation began
    outAtGate,  \* out when the loop reached the current spectrum
    prev,       \* how the previous invocation ended, and the cwd at this entry
    \* ---- SpecMask
    lam,        \* rebinned wavelength grid
    galaxy,     \* rebinned flux, "nan" for NaN
    goodpixels, \* the mask handed to the fitter
    line,       \* 1-based position of the loop over skylines
    mpc,        \* position in the mask builder
    \* ---- SpecLoader
    data,       \* the input table: columns WAVE, FLUX, FLUX_ERR
    wave,       \* wavelength in angstrom
    flux,       \* flux samples, each Num(v) or NaN
    fluxerr,    \* flux uncertainties
    lpc,        \* position in the loader
    lexc,       \* the exception the loader raised, or "none"
    \* ---- SpecArrays
    self,       \* the attributes of the pPXF object that calc_arrays reads
    arr,        \* the slices and weight vectors calc_arrays makes
    apc,        \* position in calc_arrays
    \* ---- SpecSN
    snin,       \* galaxy, bestfit and goodpixels of the pPXF object
    snout,      \* signal, meannoise and sn
    spc,        \* position in calc_sn
    \* ---- SpecTable
    tredo,      \* the redo argument of make_table
    tlogdir,    \* whether the log directory exists
    tfiles,     \* the content of every file of the log directory
    summary,    \* the summary table file
    summary0,   \* history: the summary file when make_table was called
    tcwd,       \* the working directory of the process
    pkls,       \* the list of line 284
    ti,         \* 0-based position of the loop of line 285
    acc,        \* the lists names, sols, errors, ... of lines 280-281
    opened,     \* history: the files opened, in order
    table,      \* the rows of the Table of lines 302-308
    tpc,        \* position in make_table
    texc,       \* the exception make_table raised, or "none"
    \* ---- SpecSelect
    sredo,      \* the redo argument of select_templates
    ppdir,      \* the idx column of every file of the fit directory, or no file
    outfile,    \* the subsample file
    outfile0,   \* history: the subsample file when select_templates was called
    wfiles,     \* the list of line 43
    wi,         \* 0-based position of the loop of line 45
    sidx,       \* idx: the list of idx arrays, then the array of line 48
    new,        \* new_templates, newparams and the NAXIS2 card
    selpc,      \* position in select_templates
    selexc,     \* the exception select_templates raised, or "none"
    \* ---- SpecSave
    obj,        \* the attributes of the pPXF object save is called on
    obj0,       \* history: the attributes when save was called
    ptable,     \* the Table of line 148
    sj,         \* 0-based position of the loops of lines 149 and 158
    dumped,     \* the attributes pickle.dump wrote
    svpc,       \* position in save
    \* ---- SpecRebin
    rbredo,     \* the redo argument of rebinstd
    rbout,      \* whether the output file exists
    tel,        \* the standard-star table: WAVE, FLUX, FLUX_ERR as read
    refwave,    \* the WAVE column of the reference table
    swave,      \* wave of rebinstd
    sflux,      \* flux of rebinstd
    sfluxerr,   \* fluxerr of rebinstd
    dw,         \* the step of line 76
    nbinsLog,   \* history: every nbins computed, in order
    rbpc,       \* position in rebinstd
    rbexc,      \* the exception rebinstd raised, or "none"
    \* ---- SpecCvD
    sed,        \* the wrapped model: its parnames
    caller,     \* the CvDCaller: parnames, nparams, _shape, _idxs
    theta,      \* the argument of __call__
    tvec,       \* t of __call__
    ck,         \* 0-based position of the loop of line 48
    passed,     \* the vector the wrapped model was called with
    cpc         \* position in CvDCaller

drvVars == << entry, ncompArg, dir, test, run, redo, pc, exc, cwd, cwd0, logdir, out,
              pngs, kwargs, ncomp, nstars, ngas, templates, filenames, i, pp,
              fitcalls, failed, snap, outAtGate, prev >>
maskVars == << lam, galaxy, goodpixels, line, mpc >>
loadVars == << data, wave, flux, fluxerr, lpc, lexc >>
arrVars == << self, arr, apc >>
snVars == << snin, snout, spc >>
tabVars == << tredo, tlogdir, tfiles, summary, summary0, tcwd, pkls, ti, acc, opened,
              table, tpc, texc >>
selVars == << sredo, ppdir, outfile, outfile0, wfiles, wi, sidx, new, selpc, selexc >>
saveVars == << obj, obj0, ptable, sj, dumped, svpc >>
rebinVars == << rbredo, rbout, tel, refwave, swave, sflux, sfluxerr, dw, nbinsLog, rbpc,
                rbexc >>
cvdVars == << sed, caller, theta, tvec, ck, passed, cpc >>
vars == << drvVars, maskVars, loadVars, arrVars, snVars, tabVars, selVars, saveVars,
           rebinVars, cvdVars >>

\* what the actions of each part leave alone
nonCvdVars == << drvVars, maskVars, loadVars, arrVars, snVars, tabVars, selVars,
                saveVars, rebinVars >>
nonDrvVars == << maskVars, loadVars, arrVars, snVars, tabVars, selVars, saveVars,
                 rebinVars, cvdVars >>
nonMaskVars == << drvVars, loadVars, arrVars, snVars, tabVars, selVars, saveVars,
                 rebinVars, cvdVars >>
nonLoadVars == << drvVars, maskVars, arrVars, snVars, tabVars, selVars, saveVars,
                 rebinVars, cvdVars >>
nonArrVars == << drvVars, maskVars, loadVars, snVars, tabVars, selVars, saveVars,
                 rebinVars, cvdVars >>
nonSnVars == << drvVars, maskVars, loadVars, arrVars, tabVars, selVars, saveVars,
                 rebinVars, cvdVars >>
nonTabVars == << drvVars, maskVars, loadVars, arrVars, snVars, selVars, saveVars,
                 rebinVars, cvdVars >>
nonSelVars == << drvVars, maskVars, loadVars, arrVars, snVars, tabVars, saveVars,
                 rebinVars, cvdVars >>
nonSaveVars == << drvVars, maskVars, loadVars, arrVars, snVars, tabVars, selVars,
                 rebinVars, cvdVars >>
nonRebinVars == << drvVars, maskVars, loadVars, arrVars, snVars, tabVars, selVars,
                  saveVars, cvdVars >>

-----------------------------------------------------------------------------
(* Bounds of the model *)

\* number of invocations of the entry point by the caller
MaxRuns == 2
\* number of stellar templates in the template bank file
NStarsFile == 6
\* number of emission templates in the template bank file
NGasFile == 2
\* largest number of pixels of a rebinned spectrum
MaxPix == 3
\* largest number of rows of an input table
MaxLen == 3
\* largest degree of the additive polynomial
MaxDegree == 1
\* largest template count recorded on a fit result
MaxTpl == 2
\* largest number of columns of the design matrix
MaxCols == 6
\* largest number of template weights
MaxWeights == 4
\* largest number of kinematic components of a persisted fit
MaxComp == 2
\* number of templates of the bank
NBank == 3
\* largest number of rows of a weights table
MaxIdx == 2
\* largest number of samples of the standard-star spectrum
MaxStar == 3
\* largest wavelength of a grid start or end, in grid units
MaxCoord == 8
\* largest wavelength step of the standard-star spectrum
MaxStep == 2
\* largest number of parameters of the wrapped model
MaxNames == 3
\* largest value of an entry of theta
MaxTheta == 2

-----------------------------------------------------------------------------
(* File names *)

\* the directory entries the model draws os.listdir from
FileUniverse ==
    { <<"a", ".fits">>, <<"a", ".fits", ".fits">>, <<"b", ".fits">>, <<"b", ".txt">> }

\* the directory listings the batch is run on
DirChoices ==
    { FileUniverse,
      { <<"a", ".fits">>, <<"b", ".fits">>, <<"b", ".txt">> },
      { <<"b", ".txt">> } }

\* code point order of the first character of each token
TokRank(t) ==
    CASE t = ".fits" -> 1
      [] t = ".pkl"  -> 2
      [] t = ".png"  -> 3
      [] t = ".txt"  -> 4
      [] t = "_pkl"  -> 5
      [] t = "a"     -> 6
      [] t = "b"     -> 7

\* str.__lt__ on token sequences (no token is a prefix of another)
RECURSIVE StrLess(_, _)
StrLess(s, t) ==
    IF s = <<>> THEN t # <<>>
    ELSE IF t = <<>> THEN FALSE
    ELSE IF Head(s) # Head(t) THEN TokRank(Head(s)) < TokRank(Head(t))
    ELSE StrLess(Tail(s), Tail(t))

\* sorted(S)
RECURSIVE Sorted(_)
Sorted(S) ==
    IF S = {} THEN <<>>
    ELSE LET m == CHOOSE x \in S : \A y \in S \ {x} : StrLess(x, y)
         IN  <<m>> \o Sorted(S \ {m})

\* fname.endswith(".fits")
EndsWithFits(f) == f # <<>> /\ f[Len(f)] = ".fits"

\* [_ for _ in sorted(os.listdir(".")) if _.endswith(".fits")]
ListFits(d) == SelectSeq(Sorted(d), EndsWithFits)

IsFitsTok(t) == t = ".fits"
NotFitsTok(t) == ~IsFitsTok(t)

\* name = fname.replace(".fits", "")
NameOf(f) == SelectSeq(f, NotFitsTok)

\* the result paths of the log directory: os.path.join(logdir, "{}.pkl".format(name))
Paths == { NameOf(f) : f \in { g \in FileUniverse : EndsWithFits(g) } }

-----------------------------------------------------------------------------
(* Values *)

NoFile == [state |-> "absent", by |-> <<>>, run |-> 0]
NoFail == [step |-> "none", name |-> <<>>]
NoPP == [name |-> <<>>, ntemplates |-> 0, ngas |-> 0, ncols |-> 0, tagged |-> FALSE]
Unbound == << "unbound" >>

\* kwargs of a direct call of run_ppxf: the caller gives no bounds and no start
CallerKwargs == [bound |-> TRUE, boundsRows |-> 0, startRows |-> 0,
                 degree |-> 4, mdegree |-> 0, clean |-> FALSE, component |-> <<>>]
\* kwargs of run_stellar_populations when no branch of lines 322-340 assigned it
UnboundKwargs == [bound |-> FALSE, boundsRows |-> 0, startRows |-> 0,
                  degree |-> 0, mdegree |-> 0, clean |-> FALSE, component |-> <<>>]

\* os.path.exists(p) for a result path
Exists(p) == out[p].state # "absent"

Range(s) == { s[k] : k \in 1..Len(s) }

Terminated == pc \in {"returned", "raised"}

-----------------------------------------------------------------------------
(* The driver *)

\* the mutant of the propagation: the loop body catches and goes on
MutRaiseSwallowed(step, kind) ==
    /\ failed' = [step |-> step,
                  name |-> IF i \in 1..Len(filenames) THEN filenames[i] ELSE <<>>]
    /\ exc' = "none"
    /\ pc' = "gate"
    /\ i' = i + 1

\* an exception raised inside run_stellar_populations / run_ppxf: neither
\* function has a try statement, so it unwinds to the caller
Raise(step, kind) ==
    /\ pc' = "raised"
    /\ exc' = kind
    /\ failed' = [step |-> step,
                  name |-> IF i \in 1..Len(filenames) THEN filenames[i] ELSE <<>>]
    /\ i' = i

DriverInit ==
    /\ entry \in {"run_ppxf", "run_stellar_populations"}
    /\ ncompArg \in {1, 2, 3}
    /\ dir \in DirChoices
    /\ test \in BOOLEAN
    /\ run = 0
    /\ redo = FALSE
    /\ pc = "idle"
    /\ exc = "none"
    /\ cwd = "home"
    /\ cwd0 = "home"
    /\ logdir = FALSE
    /\ out = [p \in Paths |-> NoFile]
    /\ pngs = {}
    /\ kwargs = UnboundKwargs
    /\ ncomp = 0
    /\ nstars = 0
    /\ ngas = 0
    /\ templates = Unbound
    /\ filenames = <<>>
    /\ i = 0
    /\ pp = NoPP
    /\ fitcalls = <<>>
    /\ failed = NoFail
    /\ snap = [p \in Paths |-> NoFile]
    /\ outAtGate = [p \in Paths |-> NoFile]
    /\ prev = [end |-> "none", step |-> "none", cwd |-> "home"]

\* the caller invokes the entry point (again), with the same arguments
Invoke ==
    /\ pc \in {"idle", "returned", "raised"}
    /\ run < MaxRuns
    /\ run' = run + 1
    /\ redo' \in BOOLEAN
    /\ prev' = [end |-> pc, step |-> failed.step, cwd |-> cwd]
    /\ exc' = "none"
    /\ failed' = NoFail
    /\ fitcalls' = <<>>
    /\ snap' = out
    /\ outAtGate' = out
    /\ pp' = NoPP
    /\ filenames' = <<>>
    /\ i' = 0
    /\ templates' = Unbound
    /\ nstars' = 0
    /\ ngas' = 0
    /\ IF entry = "run_stellar_populations"
       THEN /\ pc' = "rsp_config"
            /\ kwargs' = UnboundKwargs
            /\ ncomp' = 0
       ELSE /\ pc' = "templates"
            /\ kwargs' = CallerKwargs
            /\ ncomp' = ncompArg
    /\ UNCHANGED << entry, ncompArg, dir, test, cwd, cwd0, logdir, out, pngs,
                    nonDrvVars >>

\* run_stellar_populations, lines 318-341: kwargs by component count
RspKwargs(n) ==
    IF n = 1
    THEN [bound |-> TRUE, boundsRows |-> 1, startRows |-> 1,
          degree |-> 20, mdegree |-> 5, clean |-> TRUE, component |-> <<>>]
    ELSE IF n = 2
    THEN [bound |-> TRUE, boundsRows |-> 2, startRows |-> 2,
          degree |-> 12, mdegree |-> 0, clean |-> FALSE, component |-> <<>>]
    ELSE UnboundKwargs

RspConfig ==
    /\ pc = "rsp_config"
    /\ kwargs' = RspKwargs(ncompArg)
    /\ pc' = "rsp_call"
    /\ UNCHANGED << entry, ncompArg, dir, test, run, redo, exc, cwd, cwd0, logdir, out,
                    pngs, ncomp, nstars, ngas, templates, filenames, i, pp,
                    fitcalls, failed, snap, outAtGate, prev,
                    nonDrvVars >>

\* the component count run_stellar_populations hands to run_ppxf (line 342)
RspNcomp(n) == 1

\* run_stellar_populations, lines 342-343: the call of run_ppxf; **kwargs of a
\* name that no branch bound raises UnboundLocalError before the call
RspCall ==
    /\ pc = "rsp_call"
    /\ IF kwargs.bound
       THEN /\ ncomp' = RspNcomp(ncompArg)
            /\ pc' = "templates"
            /\ UNCHANGED << exc, failed, i >>
       ELSE /\ Raise("rsp_call", "NameError")
            /\ UNCHANGED ncomp
    /\ UNCHANGED << entry, ncompArg, dir, test, run, redo, cwd, cwd0, logdir, out,
                    pngs, kwargs, nstars, ngas, templates, filenames, pp,
                    fitcalls, snap, outAtGate, prev,
                    nonDrvVars >>

\* run_ppxf, line 174: stars[:5]
TestCut == 5

\* run_ppxf, lines 172-177: len(stars), after the cut of a test run
StarsKept(n) == IF test /\ n > TestCut THEN TestCut ELSE n

\* run_ppxf, lines 169-177: remember the cwd, read the template bank
ReadTemplates ==
    /\ pc = "templates"
    /\ cwd0' = cwd
    /\ \/ /\ nstars' = StarsKept(NStarsFile)
          /\ ngas' = NGasFile
          /\ pc' = "config"
          /\ UNCHANGED << exc, failed, i >>
       \/ /\ Raise("templates", "IOError")
          /\ UNCHANGED << nstars, ngas >>
    /\ UNCHANGED << entry, ncompArg, dir, test, run, redo, cwd, logdir, out, pngs,
                    kwargs, ncomp, templates, filenames, pp, fitcalls, snap,
                    outAtGate, prev,
                    nonDrvVars >>

\* n copies of x
Rep(n, x) == [k \in 1..n |-> x]

\* run_ppxf, lines 180-187: the template columns by kind; no branch for
\* another ncomp, so the local name stays unbound
TemplatesFor(n) ==
    IF n = 1 THEN Rep(nstars, "star")
    ELSE IF n = 2 THEN Rep(nstars, "star") \o Rep(ngas, "gas")
    ELSE Unbound

\* run_ppxf, lines 182-187: kwargs["component"], left as the caller gave it
\* when no branch is taken
ComponentFor(n) ==
    IF n = 1 THEN Rep(nstars, 0)
    ELSE IF n = 2 THEN Rep(nstars, 0) \o Rep(ngas, 1)
    ELSE kwargs.component

SetComponents ==
    /\ pc = "config"
    /\ templates' = TemplatesFor(ncomp)
    /\ kwargs' = [kwargs EXCEPT !.component = ComponentFor(ncomp)]
    /\ pc' = "chdir"
    /\ UNCHANGED << entry, ncompArg, dir, test, run, redo, exc, cwd, cwd0, logdir, out,
                    pngs, ncomp, nstars, ngas, filenames, i, pp,
                    fitcalls, failed, snap, outAtGate, prev,
                    nonDrvVars >>

\* run_ppxf, lines 189-190
Chdir ==
    /\ pc = "chdir"
    /\ cwd' = "data_dir"
    /\ pc' = "mkdir"
    /\ UNCHANGED << entry, ncompArg, dir, test, run, redo, exc, cwd0, logdir, out,
                    pngs, kwargs, ncomp, nstars, ngas, templates, filenames, i,
                    pp, fitcalls, failed, snap, outAtGate, prev,
                    nonDrvVars >>

\* run_ppxf, lines 191-194
Mkdir ==
    /\ pc = "mkdir"
    /\ logdir' = TRUE
    /\ pc' = "listdir"
    /\ UNCHANGED << entry, ncompArg, dir, test, run, redo, exc, cwd, cwd0, out, pngs,
                    kwargs, ncomp, nstars, ngas, templates, filenames, i, pp,
                    fitcalls, failed, snap, outAtGate, prev,
                    nonDrvVars >>

\* run_ppxf, line 196
ListDir ==
    /\ pc = "listdir"
    /\ filenames' = ListFits(dir)
    /\ i' = 1
    /\ pc' = "gate"
    /\ UNCHANGED << entry, ncompArg, dir, test, run, redo, exc, cwd, cwd0, logdir, out,
                    pngs, kwargs, ncomp, nstars, ngas, templates, pp, fitcalls,
                    failed, snap, outAtGate, prev,
                    nonDrvVars >>

\* the mutant of the gate: redo is ignored
MutGateIgnoresRedo(p) == Exists(p)

\* the mutant of the gate: no spectrum is skipped
MutGateNeverSkips(p) == FALSE

\* run_ppxf, line 200: os.path.exists(output) and not redo
GateSkips(p) == Exists(p) /\ ~redo

\* run_ppxf, lines 197-201: continue
GateSkip ==
    /\ pc = "gate"
    /\ i <= Len(filenames)
    /\ GateSkips(NameOf(filenames[i]))
    /\ i' = i + 1
    /\ UNCHANGED << entry, ncompArg, dir, test, run, redo, pc, exc, cwd, cwd0, logdir,
                    out, pngs, kwargs, ncomp, nstars, ngas, templates,
                    filenames, pp, fitcalls, failed, snap, outAtGate, prev,
                    nonDrvVars >>

\* run_ppxf, lines 197-204: the spectrum is processed
GateProceed ==
    /\ pc = "gate"
    /\ i <= Len(filenames)
    /\ ~GateSkips(NameOf(filenames[i]))
    /\ pc' = "read"
    /\ outAtGate' = out
    /\ UNCHANGED << entry, ncompArg, dir, test, run, redo, exc, cwd, cwd0, logdir, out,
                    pngs, kwargs, ncomp, nstars, ngas, templates, filenames, i,
                    pp, fitcalls, failed, snap, prev,
                    nonDrvVars >>

\* run_ppxf, lines 205-209: Table.read(fname)
ReadSpectrum ==
    /\ pc = "read"
    /\ \/ /\ pc' = "prepare"
          /\ UNCHANGED << exc, failed, i >>
       \/ Raise("read", "IOError")
    /\ UNCHANGED << entry, ncompArg, dir, test, run, redo, cwd, cwd0, logdir, out,
                    pngs, kwargs, ncomp, nstars, ngas, templates, filenames, pp,
                    fitcalls, snap, outAtGate, prev,
                    nonDrvVars >>

\* run_ppxf, lines 210-246: zero removal, trimming, rebinning, masking; an
\* empty spectrum raises ValueError (line 216) or IndexError (line 226)
Prepare ==
    /\ pc = "prepare"
    /\ \/ /\ pc' = "fit"
          /\ UNCHANGED << exc, failed, i >>
       \/ Raise("prepare", "DataError")
    /\ UNCHANGED << entry, ncompArg, dir, test, run, redo, cwd, cwd0, logdir, out,
                    pngs, kwargs, ncomp, nstars, ngas, templates, filenames, pp,
                    fitcalls, snap, outAtGate, prev,
                    nonDrvVars >>

\* run_ppxf, line 255: pp.ngas = ngas
TaggedNgas == ngas

\* run_ppxf, lines 247-259: the fit and the metadata attached to its result;
\* the argument templates is evaluated first (NameError when unbound)
Fit ==
    /\ pc = "fit"
    /\ IF templates = Unbound
       THEN /\ Raise("fit", "NameError")
            /\ UNCHANGED << pp, fitcalls >>
       ELSE /\ fitcalls' = Append(fitcalls, filenames[i])
            /\ \/ /\ pp' = [name |-> NameOf(filenames[i]),
                            ntemplates |-> nstars,
                            ngas |-> TaggedNgas,
                            ncols |-> Len(templates),
                            tagged |-> TRUE]
                  /\ pc' = "decompose"
                  /\ UNCHANGED << exc, failed, i >>
               \/ /\ Raise("fit", "FitError")
                  /\ UNCHANGED pp
    /\ UNCHANGED << entry, ncompArg, dir, test, run, redo, cwd, cwd0, logdir, out,
                    pngs, kwargs, ncomp, nstars, ngas, templates, filenames,
                    snap, outAtGate, prev,
                    nonDrvVars >>

\* run_ppxf, line 260: pPXF(pp), i.e. calc_arrays and calc_sn
Decompose ==
    /\ pc = "decompose"
    /\ \/ /\ pc' = "plot"
          /\ UNCHANGED << exc, failed, i >>
       \/ Raise("decompose", "ValueError")
    /\ UNCHANGED << entry, ncompArg, dir, test, run, redo, cwd, cwd0, logdir, out,
                    pngs, kwargs, ncomp, nstars, ngas, templates, filenames, pp,
                    fitcalls, snap, outAtGate, prev,
                    nonDrvVars >>

\* run_ppxf, line 261: pp.plot(output=<logdir>/<name>.png)
Plot ==
    /\ pc = "plot"
    /\ \/ /\ pngs' = pngs \cup {pp.name}
          /\ pc' = "save_open"
          /\ UNCHANGED << exc, failed, i >>
       \/ /\ Raise("plot", "ValueError")
          /\ UNCHANGED pngs
    /\ UNCHANGED << entry, ncompArg, dir, test, run, redo, cwd, cwd0, logdir, out,
                    kwargs, ncomp, nstars, ngas, templates, filenames, pp,
                    fitcalls, snap, outAtGate, prev,
                    nonDrvVars >>

\* the file open(output, "wb") leaves at the path: created or truncated
OpenedFile == [state |-> "partial", by |-> filenames[i], run |-> run]

\* the file after pickle.dump and the close of the with block
DumpedFile == [state |-> "complete", by |-> filenames[i], run |-> run]

\* pPXF.save, lines 139-162: the table is built, the file is opened for writing
SaveOpen ==
    /\ pc = "save_open"
    /\ \/ /\ out' = [out EXCEPT ![pp.name] = OpenedFile]
          /\ pc' = "save_dump"
          /\ UNCHANGED << exc, failed, i >>
       \/ /\ Raise("save_open", "OSError")
          /\ UNCHANGED out
    /\ UNCHANGED << entry, ncompArg, dir, test, run, redo, cwd, cwd0, logdir, pngs,
                    kwargs, ncomp, nstars, ngas, templates, filenames, pp,
                    fitcalls, snap, outAtGate, prev,
                    nonDrvVars >>

\* pPXF.save, lines 163-164, and run_ppxf, line 263
SaveDump ==
    /\ pc = "save_dump"
    /\ \/ /\ out' = [out EXCEPT ![pp.name] = DumpedFile]
          /\ pc' = "gate"
          /\ i' = i + 1
          /\ UNCHANGED << exc, failed >>
       \/ /\ Raise("save_dump", "PicklingError")
          /\ UNCHANGED out
    /\ UNCHANGED << entry, ncompArg, dir, test, run, redo, cwd, cwd0, logdir, pngs,
                    kwargs, ncomp, nstars, ngas, templates, filenames, pp,
                    fitcalls, snap, outAtGate, prev,
                    nonDrvVars >>

\* run_ppxf, lines 264-265: the loop is over
Return ==
    /\ pc = "gate"
    /\ i > Len(filenames)
    /\ cwd' = cwd0
    /\ pc' = "returned"
    /\ UNCHANGED << entry, ncompArg, dir, test, run, redo, exc, cwd0, logdir, out,
                    pngs, kwargs, ncomp, nstars, ngas, templates, filenames, i,
                    pp, fitcalls, failed, snap, outAtGate, prev,
                    nonDrvVars >>

\* one statement group of the running invocation
RunStep ==
    \/ RspConfig
    \/ RspCall
    \/ ReadTemplates
    \/ SetComponents
    \/ Chdir
    \/ Mkdir
    \/ ListDir
    \/ GateSkip
    \/ GateProceed
    \/ ReadSpectrum
    \/ Prepare
    \/ Fit
    \/ Decompose
    \/ Plot
    \/ SaveOpen
    \/ SaveDump
    \/ Return

-----------------------------------------------------------------------------
(* The bad-pixel mask, run_ppxf lines 234-244 *)

\* run_ppxf, line 235
skylines == << 4785, 5577, 5889, 6300, 6863 >>

\* run_ppxf, lines 238-239: the half width of the window around a sky line
HalfWidth == 15

\* wavelengths of the rebinned grids: the edges of the first and the last
\* window, one angstrom beyond them, the line centres, one clear wavelength
WaveVals ==
    { L + d : L \in {4785, 6863}, d \in {-16, -15, 0, 15, 16} }
        \cup {5000, 5577, 5889, 6300}

\* strictly increasing, as np.exp(logLam) of a log-rebinned grid is
Increasing(s) == \A j, k \in 1..Len(s) : j < k => s[j] < s[k]

\* np.arange(n)
Arange(n) == [k \in 1..n |-> k - 1]

\* the elements of a finite set of integers in ascending order
RECURSIVE SortInts(_)
SortInts(S) ==
    IF S = {} THEN <<>>
    ELSE LET m == CHOOSE x \in S : \A y \in S : x <= y
         IN  <<m>> \o SortInts(S \ {m})

\* np.intersect1d(a, b): the sorted, unique values that are in both
intersect1d(a, b) == SortInts(Range(a) \cap Range(b))

\* the mutant of the window test: the edges of the window pass
MutOutsideOpenWindow(w, l) == (w <= l - HalfWidth) \/ (w >= l + HalfWidth)

\* run_ppxf, lines 238-239: (lam < line - 15) | (lam > line + 15)
OutsideWindow(w, l) == (w < l - HalfWidth) \/ (w > l + HalfWidth)

\* run_ppxf, lines 238-239: np.argwhere(...).ravel() for one sky line
SkylineIdx(l) ==
    LET Keep(k) == OutsideWindow(lam[k + 1], l)
    IN  SelectSeq(Arange(Len(lam)), Keep)

\* run_ppxf, line 242: np.where(~np.isnan(galaxy))[0]
NotNanIdx ==
    LET Keep(k) == galaxy[k + 1] # "nan"
    IN  SelectSeq(Arange(Len(galaxy)), Keep)

MaskIdle ==
    /\ lam = <<>>
    /\ galaxy = <<>>
    /\ goodpixels = <<>>
    /\ line = 0
    /\ mpc = "off"

\* the rebinned spectrum the mask is built for
MaskInit ==
    /\ \E n \in 1..MaxPix :
          /\ lam \in [1..n -> WaveVals]
          /\ galaxy \in [1..n -> {"num", "nan"}]
    /\ Increasing(lam)
    /\ goodpixels = <<>>
    /\ line = 0
    /\ mpc = "start"

\* run_ppxf, lines 235-236
MaskStart ==
    /\ mpc = "start"
    /\ goodpixels' = Arange(Len(lam))
    /\ line' = 1
    /\ mpc' = "lines"
    /\ UNCHANGED << lam, galaxy, nonMaskVars >>

\* run_ppxf, lines 237-240: one pass of the loop over skylines
MaskLine ==
    /\ mpc = "lines"
    /\ line <= Len(skylines)
    /\ goodpixels' = intersect1d(goodpixels, SkylineIdx(skylines[line]))
    /\ line' = line + 1
    /\ UNCHANGED << lam, galaxy, mpc, nonMaskVars >>

\* run_ppxf, lines 242-244
MaskNans ==
    /\ mpc = "lines"
    /\ line > Len(skylines)
    /\ goodpixels' = intersect1d(goodpixels, NotNanIdx)
    /\ mpc' = "done"
    /\ UNCHANGED << lam, galaxy, line, nonMaskVars >>

-----------------------------------------------------------------------------
(* The spectrum loader, run_ppxf lines 205-226 *)

\* a flux sample: a number or NaN
Num(v) == [nan |-> FALSE, v |-> v]
NaN == [nan |-> TRUE, v |-> 0]

\* the flux samples the input tables are drawn from
FluxVals == { Num(0), Num(1), NaN }

\* the uncertainties the input tables are drawn from
ErrVals == {0, 1, 2}

\* np.exp(logwave_temp), line 171: the template wavelength grid, in angstrom
wave_temp == << 20, 30, 50 >>

\* lines 206-207: micrometer to angstrom, WAVE held in thousandths of a
\* micrometer
ToAngstrom(w) == w * 10

\* IEEE comparison x != 0: true of NaN
NeZero(x) == x.nan \/ x.v # 0

\* a[idx] for an index list idx (0-based)
Take(a, idx) == [k \in 1..Len(idx) |-> a[idx[k] + 1]]

\* run_ppxf, line 212: np.where(flux != 0)
NonZeroIdx(f) ==
    LET Keep(k) == NeZero(f[k + 1])
    IN  SelectSeq(Arange(Len(f)), Keep)

\* the largest element of a non-empty array
ArrMax(a) == CHOOSE m \in Range(a) : \A x \in Range(a) : x <= m

\* run_ppxf, line 216: fluxerr[fluxerr == 0] = fluxerr.max()
FixZeroErr(e) == [k \in 1..Len(e) |-> IF e[k] = 0 THEN ArrMax(e) ELSE e[k]]

\* the mutant of the trimming: the ends of the template grid are kept
MutTrimIdxClosed(w) ==
    LET Keep(k) == w[k + 1] >= wave_temp[1] /\ w[k + 1] <= wave_temp[Len(wave_temp)]
    IN  SelectSeq(Arange(Len(w)), Keep)

\* run_ppxf, lines 219-221: np.argwhere(wave > wave_temp[0] and wave < wave_temp[-1])
TrimIdx(w) ==
    LET Keep(k) == w[k + 1] > wave_temp[1] /\ w[k + 1] < wave_temp[Len(wave_temp)]
    IN  SelectSeq(Arange(Len(w)), Keep)

LoaderIdle ==
    /\ data = [WAVE |-> <<>>, FLUX |-> <<>>, FLUX_ERR |-> <<>>]
    /\ wave = <<>>
    /\ flux = <<>>
    /\ fluxerr = <<>>
    /\ lpc = "off"
    /\ lexc = "none"

\* the input table: a uniform wavelength grid, any flux and uncertainty
LoaderInit ==
    /\ \E n \in 0..MaxLen, s \in 0..2 :
          data \in [WAVE : {[k \in 1..n |-> s + k]},
                    FLUX : [1..n -> FluxVals],
                    FLUX_ERR : [1..n -> ErrVals]]
    /\ wave = <<>>
    /\ flux = <<>>
    /\ fluxerr = <<>>
    /\ lpc = "read"
    /\ lexc = "none"

\* run_ppxf, lines 205-209
LoadRead ==
    /\ lpc = "read"
    /\ wave' = [k \in 1..Len(data.WAVE) |-> ToAngstrom(data.WAVE[k])]
    /\ flux' = data.FLUX
    /\ fluxerr' = data.FLUX_ERR
    /\ lpc' = "zeros"
    /\ UNCHANGED << data, lexc, nonLoadVars >>

\* run_ppxf, lines 212-215
LoadRemoveZeros ==
    /\ lpc = "zeros"
    /\ LET idx == NonZeroIdx(flux)
       IN  /\ wave' = Take(wave, idx)
           /\ flux' = Take(flux, idx)
           /\ fluxerr' = Take(fluxerr, idx)
    /\ lpc' = "errfix"
    /\ UNCHANGED << data, lexc, nonLoadVars >>

\* the mutant of line 216: an empty array passes
MutLoadFixErrLenient ==
    /\ lpc = "errfix"
    /\ fluxerr' = (IF fluxerr = <<>> THEN <<>> ELSE FixZeroErr(fluxerr))
    /\ lpc' = "trim"
    /\ UNCHANGED << data, wave, flux, lexc, nonLoadVars >>

\* run_ppxf, line 216: max() of an empty array raises ValueError
LoadFixErr ==
    /\ lpc = "errfix"
    /\ IF fluxerr = <<>>
       THEN /\ lpc' = "raised"
            /\ lexc' = "ValueError"
            /\ UNCHANGED fluxerr
       ELSE /\ fluxerr' = FixZeroErr(fluxerr)
            /\ lpc' = "trim"
            /\ UNCHANGED lexc
    /\ UNCHANGED << data, wave, flux, nonLoadVars >>

\* run_ppxf, lines 219-224
LoadTrim ==
    /\ lpc = "trim"
    /\ LET idx == TrimIdx(wave)
       IN  /\ wave' = Take(wave, idx)
           /\ flux' = Take(flux, idx)
           /\ fluxerr' = Take(fluxerr, idx)
    /\ lpc' = "rebin"
    /\ UNCHANGED << data, lexc, nonLoadVars >>

\* run_ppxf, line 226: wave[0] and wave[-1] of an empty array raise IndexError
LoadRebinArgs ==
    /\ lpc = "rebin"
    /\ IF wave = <<>>
       THEN /\ lpc' = "raised"
            /\ lexc' = "IndexError"
       ELSE /\ lpc' = "rebinning"
            /\ UNCHANGED lexc
    /\ UNCHANGED << data, wave, flux, fluxerr, nonLoadVars >>

-----------------------------------------------------------------------------
(* pPXF.calc_arrays, lines 34-70 *)

Min(a, b) == IF a < b THEN a ELSE b
Max(a, b) == IF a > b THEN a ELSE b

\* the position a slice bound n denotes in a sequence of length len: a
\* negative bound counts from the end, every bound is clipped
SliceBound(n, len) == IF n < 0 THEN Max(n + len, 0) ELSE Min(n, len)

\* a[:n]
SliceTo(a, n) == SubSeq(a, 1, SliceBound(n, Len(a)))

\* the mutant of a[n:]: the array is not advanced
MutSliceFromAll(a, n) == a

\* a[n:]
SliceFrom(a, n) == SubSeq(a, SliceBound(n, Len(a)) + 1, Len(a))

\* lines 37-44: the column slices of the design matrix
MatrixSlices(matrix, degree, ntemplates, ngas_) ==
    LET mpoly == SliceTo(matrix, degree + 1)
        m1 == SliceFrom(matrix, degree + 1)
        ssps == SliceTo(m1, ntemplates)
        m2 == SliceFrom(m1, ntemplates)
        gas == SliceTo(m2, ngas_)
        m3 == SliceFrom(m2, ngas_)
    IN  [mpoly |-> mpoly, ssps |-> ssps, gas |-> gas, sky |-> m3]

\* lines 60-65: the slices of the weight vector
WeightSlices(weights, ntemplates, ngas_) ==
    LET star == SliceTo(weights, ntemplates)
        w1 == SliceFrom(weights, ntemplates)
        gasw == SliceTo(w1, ngas_)
        w2 == SliceFrom(w1, ngas_)
    IN  [star_weights |-> star, gas_weights |-> gasw, sky_weights |-> w2]

NoArr == [mpoly |-> <<>>, ssps |-> <<>>, gas |-> <<>>, sky |-> <<>>,
          star_weights |-> <<>>, gas_weights |-> <<>>, sky_weights |-> <<>>]

ArraysIdle ==
    /\ self = [degree |-> 0, ntemplates |-> 0, ngas |-> 0, matrix |-> <<>>, weights |-> <<>>]
    /\ arr = NoArr
    /\ apc = "off"

\* the object calc_arrays is called on: columns and weights are numbered
ArraysInit ==
    /\ \E d \in (-1)..MaxDegree, nt \in 0..MaxTpl, ng \in 0..MaxTpl,
          nc \in 0..MaxCols, nw \in 0..MaxWeights :
          self = [degree |-> d, ntemplates |-> nt, ngas |-> ng,
                  matrix |-> Arange(nc), weights |-> Arange(nw)]
    /\ arr = NoArr
    /\ apc = "matrix"

\* lines 37-44
SliceMatrix ==
    /\ apc = "matrix"
    /\ LET sl == MatrixSlices(self.matrix, self.degree, self.ntemplates, self.ngas)
       IN  arr' = [arr EXCEPT !.mpoly = sl.mpoly, !.ssps = sl.ssps,
                              !.gas = sl.gas, !.sky = sl.sky]
    /\ apc' = "weights"
    /\ UNCHANGED << self, nonArrVars >>

\* lines 60-65
SliceWeights ==
    /\ apc = "weights"
    /\ LET sl == WeightSlices(self.weights, self.ntemplates, self.ngas)
       IN  arr' = [arr EXCEPT !.star_weights = sl.star_weights,
                              !.gas_weights = sl.gas_weights,
                              !.sky_weights = sl.sky_weights]
    /\ apc' = "dot"
    /\ UNCHANGED << self, nonArrVars >>

\* lines 67-69: ndarray.dot raises ValueError when the column count of a
\* slice differs from the length of its weight vector
Components ==
    /\ apc = "dot"
    /\ apc' = (IF /\ Len(arr.ssps) = Len(arr.star_weights)
                  /\ Len(arr.gas) = Len(arr.gas_weights)
                  /\ Len(arr.sky) = Len(arr.sky_weights)
               THEN "done" ELSE "raised")
    /\ UNCHANGED << self, arr, nonArrVars >>

-----------------------------------------------------------------------------
(* pPXF.calc_sn, lines 72-79 *)

RECURSIVE SeqSum(_)
SeqSum(a) == IF a = <<>> THEN 0 ELSE Head(a) + SeqSum(Tail(a))

\* twice the median of a non-empty array (np.nanmedian averages the two
\* middle values of an even count)
Median2(a) ==
    LET n == Len(a)
        Rank(k) == Cardinality({ j \in 1..n : a[j] < a[k] \/ (a[j] = a[k] /\ j < k) }) + 1
        At(r) == a[CHOOSE k \in 1..n : Rank(k) = r]
    IN  IF n % 2 = 1 THEN 2 * At((n + 1) \div 2)
        ELSE At(n \div 2) + At(n \div 2 + 1)

\* n * n times the variance of an array: n * sum(x^2) - sum(x)^2
NVar(a) ==
    Len(a) * SeqSum([k \in 1..Len(a) |-> a[k] * a[k]]) - SeqSum(a) * SeqSum(a)

\* one pass of astropy.stats.sigma_clip(sigma=5): a value stays when its
\* distance to the median is at most 5 standard deviations
ClipPass(a) ==
    LET n == Len(a)
        Keep(x) == n * n * (2 * x - Median2(a)) * (2 * x - Median2(a)) <= 4 * 25 * NVar(a)
    IN  SelectSeq(a, Keep)

\* sigma_clip(sigma=5): at most maxiters = 5 passes, until nothing is clipped
RECURSIVE SigmaClip(_, _)
SigmaClip(a, iters) ==
    IF iters = 0 \/ a = <<>> \/ ClipPass(a) = a THEN a
    ELSE SigmaClip(ClipPass(a), iters - 1)

\* IEEE 754 division of float64 by the sign classes of its operands
Divide(num, den) ==
    IF num = "nan" \/ den = "nan" THEN "nan"
    ELSE IF den = "zero"
         THEN (IF num = "zero" THEN "nan" ELSE IF num = "pos" THEN "inf" ELSE "-inf")
    ELSE "finite"

\* the sign class of a number
SignClass(x) == IF x = 0 THEN "zero" ELSE IF x > 0 THEN "pos" ELSE "neg"

\* line 74: np.nanmedian(self.galaxy[self.goodpixels]), NaN on an empty array
Signal ==
    LET g == Take(snin.galaxy, snin.goodpixels)
    IN  IF g = <<>> THEN "nan" ELSE SignClass(Median2(g))

\* the residual over the mask, lines 75-76
Residual ==
    LET g == Take(snin.galaxy, snin.goodpixels)
        b == Take(snin.bestfit, snin.goodpixels)
    IN  [k \in 1..Len(g) |-> g[k] - b[k]]

\* lines 75-77: np.nanstd(sigma_clip(residual, sigma=5)), NaN on an empty array
MeanNoise ==
    LET c == SigmaClip(Residual, 5)
    IN  IF c = <<>> THEN "nan" ELSE SignClass(NVar(c))

SnIdle ==
    /\ snin = [galaxy |-> <<>>, bestfit |-> <<>>, goodpixels |-> <<>>]
    /\ snout = [signal |-> "unset", meannoise |-> "unset", sn |-> "unset"]
    /\ spc = "off"

\* the fitted spectrum: galaxy, best fit and mask of one length
SnInit ==
    /\ \E n \in 1..MaxPix :
          \E gp \in SUBSET (0..(n - 1)) :
             snin \in [galaxy : [1..n -> {-1, 0, 1}],
                       bestfit : [1..n -> {0, 1}],
                       goodpixels : {SortInts(gp)}]
    /\ snout = [signal |-> "unset", meannoise |-> "unset", sn |-> "unset"]
    /\ spc = "signal"

\* line 74
CalcSignal ==
    /\ spc = "signal"
    /\ snout' = [snout EXCEPT !.signal = Signal]
    /\ spc' = "noise"
    /\ UNCHANGED << snin, nonSnVars >>

\* lines 75-77
CalcNoise ==
    /\ spc = "noise"
    /\ snout' = [snout EXCEPT !.meannoise = MeanNoise]
    /\ spc' = "ratio"
    /\ UNCHANGED << snin, nonSnVars >>

\* lines 78-79
CalcRatio ==
    /\ spc = "ratio"
    /\ snout' = [snout EXCEPT !.sn = Divide(snout.signal, snout.meannoise)]
    /\ spc' = "done"
    /\ UNCHANGED << snin, nonSnVars >>

-----------------------------------------------------------------------------
(* make_table, lines 267-311 *)

\* the entries of the log directory: results, a plot, and a file whose name
\* ends in the letters pkl without being a .pkl file
TableFiles ==
    { <<"a", ".pkl">>, <<"a", ".png">>, <<"b", ".pkl">>, <<"b", "_pkl">> }

\* the moments of the fits of lines 326 and 335: sol and error have 4 entries
NMoments == 4

\* a value of a persisted fit: quantity q of file stem f, component c, position k
Entry(q, f, c, k) == [q |-> q, of |-> f, comp |-> c, pos |-> k]

\* the vector of quantity q of component c
PyVector(q, f, c) == [k \in 1..NMoments |-> Entry(q, f, c, k - 1)]

\* the attribute ppxf holds for sol and error: one vector when the fit has one
\* component, a list of vectors, one per component, otherwise
PyAttr(q, f, n) ==
    IF n = 1 THEN [kind |-> "vector", v |-> << PyVector(q, f, 0) >>]
    ELSE [kind |-> "list", v |-> [c \in 1..n |-> PyVector(q, f, c - 1)]]

\* fname without its last token: the name pPXF.save formats the file name from
Stem(f) == SubSeq(f, 1, Len(f) - 1)

\* the object pickle.load returns for a completely written result of n components
Unpickled(f, n) ==
    [name |-> Stem(f), ncomp |-> n,
     sol |-> PyAttr("sol", Stem(f), n), error |-> PyAttr("error", Stem(f), n),
     chi2 |-> Entry("chi2", Stem(f), 0, 0), sn |-> Entry("sn", Stem(f), 0, 0),
     degree |-> Entry("degree", Stem(f), 0, 0),
     mdegree |-> Entry("mdegree", Stem(f), 0, 0)]

\* file contents: a result of ncomp components, a result file opened and never
\* dumped, any other file, or no file
Absent == [state |-> "absent", ncomp |-> 0]
Contents ==
    { Absent, [state |-> "partial", ncomp |-> 0], [state |-> "other", ncomp |-> 0] }
    \cup { [state |-> "complete", ncomp |-> n] : n \in 1..MaxComp }

\* what a directory entry can hold
Allowed(f) ==
    IF f[Len(f)] = ".pkl"
    THEN { c \in Contents : c.state \in {"absent", "partial", "complete"} }
    ELSE { c \in Contents : c.state \in {"absent", "other"} }

\* _.endswith("pkl")
EndsWithPkl(f) == f[Len(f)] \in {".pkl", "_pkl"}

\* os.listdir(".") in the log directory
TableListing == { f \in TableFiles : tfiles[f].state # "absent" }

\* line 284
ListPkls == SelectSeq(Sorted(TableListing), EndsWithPkl)

\* x[0] of a list of vectors or of a vector
Item0(x) ==
    IF x.kind = "list" THEN [kind |-> "vector", v |-> << x.v[1] >>]
    ELSE [kind |-> "scalar", v |-> << << x.v[1][1] >> >>]

\* the mutant of line 289: the uncertainty of the last component
MutErrorOfLast(p) ==
    IF p.ncomp = 1 THEN p.error
    ELSE [kind |-> "vector", v |-> << p.error.v[Len(p.error.v)] >>]

\* line 287
SolOf(p) == IF p.ncomp = 1 THEN p.sol ELSE Item0(p.sol)

\* line 289
ErrorOf(p) == IF p.ncomp = 1 THEN p.error ELSE Item0(p.error)

\* np.array(a).T[k] for a list of vectors of one length
Column(a, k) == [j \in 1..Len(a) |-> a[j].v[1][k + 1]]

NoAcc == [names |-> <<>>, sols |-> <<>>, errors |-> <<>>, chi2s |-> <<>>, sns |-> <<>>,
          adegrees |-> <<>>, mdegrees |-> <<>>]

\* lines 302-308, row by row
TableRows(a) ==
    [j \in 1..Len(a.names) |->
        [spec |-> a.names[j],
         v |-> Column(a.sols, 0)[j], verr |-> Column(a.errors, 0)[j],
         sigma |-> Column(a.sols, 1)[j], sigmaerr |-> Column(a.errors, 1)[j],
         h3 |-> Column(a.sols, 2)[j], h3err |-> Column(a.errors, 2)[j],
         h4 |-> Column(a.sols, 3)[j], h4err |-> Column(a.errors, 3)[j],
         chi2 |-> a.chi2s[j], snr |-> a.sns[j],
         adegree |-> a.adegrees[j], mdegree |-> a.mdegrees[j]]]

NoSummary == [state |-> "absent", rows |-> <<>>, stamp |-> 0]
OldSummary == [state |-> "present", rows |-> <<>>, stamp |-> 0]

TableIdle ==
    /\ tredo = FALSE
    /\ tlogdir = FALSE
    /\ tfiles = [f \in TableFiles |-> Absent]
    /\ summary = NoSummary
    /\ summary0 = NoSummary
    /\ tcwd = "home"
    /\ pkls = <<>>
    /\ ti = 0
    /\ acc = NoAcc
    /\ opened = <<>>
    /\ table = <<>>
    /\ tpc = "off"
    /\ texc = "none"

\* a call of make_table: any redo, a summary of an earlier call or none, a log
\* directory that exists or not, holding any of the files
TableInit ==
    /\ tredo \in BOOLEAN
    /\ tlogdir \in BOOLEAN
    /\ tfiles \in { t \in [TableFiles -> Contents] :
                      \A f \in TableFiles :
                         t[f] \in (IF tlogdir THEN Allowed(f) ELSE {Absent}) }
    /\ summary \in {NoSummary, OldSummary}
    /\ summary0 = summary
    /\ tcwd = "home"
    /\ pkls = <<>>
    /\ ti = 0
    /\ acc = NoAcc
    /\ opened = <<>>
    /\ table = <<>>
    /\ tpc = "gate"
    /\ texc = "none"

\* an exception leaves make_table: no try statement in lines 267-311
TableRaise(kind) ==
    /\ tpc' = "raised"
    /\ texc' = kind

\* the mutant of the gate: redo is not consulted
MutTableGateIgnoresRedo == summary.state = "present"

\* line 278
TableGateSkips == summary.state = "present" /\ ~tredo

\* lines 278-281
TableGate ==
    /\ tpc = "gate"
    /\ tpc' = (IF TableGateSkips THEN "returned" ELSE "chdir")
    /\ UNCHANGED << tredo, tlogdir, tfiles, summary, summary0, tcwd, pkls, ti, acc,
                    opened, table, texc, nonTabVars >>

\* line 283
TableChdir ==
    /\ tpc = "chdir"
    /\ IF tlogdir
       THEN /\ tcwd' = "logdir"
            /\ tpc' = "list"
            /\ UNCHANGED texc
       ELSE /\ TableRaise("FileNotFoundError")
            /\ UNCHANGED tcwd
    /\ UNCHANGED << tredo, tlogdir, tfiles, summary, summary0, pkls, ti, acc, opened,
                    table, nonTabVars >>

\* line 284
TableList ==
    /\ tpc = "list"
    /\ pkls' = ListPkls
    /\ ti' = 0
    /\ tpc' = "load"
    /\ UNCHANGED << tredo, tlogdir, tfiles, summary, summary0, tcwd, acc, opened,
                    table, texc, nonTabVars >>

\* lines 285-297, one iteration: pickle.load raises EOFError on an empty file
\* and UnpicklingError on a file that is not a pickle
TableLoad ==
    /\ tpc = "load"
    /\ ti < Len(pkls)
    /\ LET fname == pkls[ti + 1]
           c == tfiles[fname]
           p == Unpickled(fname, c.ncomp)
       IN  /\ opened' = Append(opened, fname)
           /\ IF c.state = "complete"
              THEN /\ acc' = [names |-> Append(acc.names, p.name),
                              sols |-> Append(acc.sols, SolOf(p)),
                              errors |-> Append(acc.errors, ErrorOf(p)),
                              chi2s |-> Append(acc.chi2s, p.chi2),
                              sns |-> Append(acc.sns, p.sn),
                              adegrees |-> Append(acc.adegrees, p.degree),
                              mdegrees |-> Append(acc.mdegrees, p.mdegree)]
                   /\ ti' = ti + 1
                   /\ UNCHANGED << tpc, texc >>
              ELSE /\ TableRaise(IF c.state = "partial" THEN "EOFError"
                                 ELSE "UnpicklingError")
                   /\ UNCHANGED << acc, ti >>
    /\ UNCHANGED << tredo, tlogdir, tfiles, summary, summary0, tcwd, pkls, table,
                    nonTabVars >>

\* lines 298-308: sols[0] of an array without rows raises IndexError
TableBuild ==
    /\ tpc = "load"
    /\ ti = Len(pkls)
    /\ IF acc.sols = <<>>
       THEN /\ TableRaise("IndexError")
            /\ UNCHANGED table
       ELSE /\ table' = TableRows(acc)
            /\ tpc' = "write"
            /\ UNCHANGED texc
    /\ UNCHANGED << tredo, tlogdir, tfiles, summary, summary0, tcwd, pkls, ti, acc,
                    opened, nonTabVars >>

\* line 309
TableWrite ==
    /\ tpc = "write"
    /\ summary' = [state |-> "present", rows |-> table, stamp |-> 1]
    /\ tpc' = "chdir_back"
    /\ UNCHANGED << tredo, tlogdir, tfiles, summary0, tcwd, pkls, ti, acc, opened,
                    table, texc, nonTabVars >>

\* lines 310-311
TableReturn ==
    /\ tpc = "chdir_back"
    /\ tcwd' = "home"
    /\ tpc' = "returned"
    /\ UNCHANGED << tredo, tlogdir, tfiles, summary, summary0, pkls, ti, acc, opened,
                    table, texc, nonTabVars >>

-----------------------------------------------------------------------------
(* select_templates, src/WGS/pipeline.py lines 39-62 *)

\* the entries of the fit directory: two weights tables and another table
FitDirFiles ==
    { <<"a", "_weights.fits">>, <<"b", "_weights.fits">>, <<"a", ".fits">> }

\* _.endswith("weights.fits")
EndsWithWeights(f) == f[Len(f)] = "_weights.fits"

\* the idx columns a weights table can hold: template numbers of the bank
IdxArrays == UNION { [1..n -> 0..(NBank - 1)] : n \in 0..MaxIdx }

NoTable == [present |-> FALSE, idx |-> <<>>]

\* a table of the fit directory that is no weights file
OtherTable == [present |-> TRUE, idx |-> << NBank - 1 >>]

\* os.listdir(ppdir)
FitDirListing == { f \in FitDirFiles : ppdir[f].present }

\* the orders os.listdir can return a set of names in
RECURSIVE Orders(_)
Orders(S) ==
    IF S = {} THEN { <<>> }
    ELSE UNION { { <<x>> \o o : o \in Orders(S \ {x}) } : x \in S }

\* np.hstack of a list of arrays
RECURSIVE hstack(_)
hstack(l) == IF l = <<>> THEN <<>> ELSE Head(l) \o hstack(Tail(l))

\* the mutant of np.unique: the stacked array as it is
MutUniqueAsIs(a) == a

\* np.unique: the sorted distinct values
unique(a) == SortInts(Range(a))

\* row r of the template array and of the parameter table of the bank
SspRow(r) == [of |-> "ssp_templates", row |-> r]
ParamRow(r) == [of |-> "params", row |-> r]

\* line 49 and line 50: the bank
ssp_templates == [k \in 1..NBank |-> SspRow(k - 1)]
params == [k \in 1..NBank |-> ParamRow(k - 1)]

NoOutfile == [state |-> "absent", templates |-> <<>>, params |-> <<>>, naxis2 |-> 0,
              stamp |-> 0]

\* the file an earlier call wrote for a batch that used template 0 only
OldOutfile == [state |-> "present", templates |-> << SspRow(0) >>,
               params |-> << ParamRow(0) >>, naxis2 |-> 1, stamp |-> 0]

NoNew == [templates |-> <<>>, params |-> <<>>, naxis2 |-> 0]

SelectIdle ==
    /\ sredo = FALSE
    /\ ppdir = [f \in FitDirFiles |-> NoTable]
    /\ outfile = NoOutfile
    /\ outfile0 = NoOutfile
    /\ wfiles = <<>>
    /\ wi = 0
    /\ sidx = <<>>
    /\ new = NoNew
    /\ selpc = "off"
    /\ selexc = "none"

\* a call of select_templates: any redo, a subsample file of an earlier call
\* or none, a fit directory holding any of the files
SelectInit ==
    /\ sredo \in BOOLEAN
    /\ ppdir \in { d \in [FitDirFiles -> {NoTable} \cup { [present |-> TRUE, idx |-> a] :
                                                          a \in IdxArrays }] :
                      \A f \in FitDirFiles :
                         EndsWithWeights(f) \/ d[f] \in {NoTable, OtherTable} }
    /\ outfile \in {NoOutfile, OldOutfile}
    /\ outfile0 = outfile
    /\ wfiles = <<>>
    /\ wi = 0
    /\ sidx = <<>>
    /\ new = NoNew
    /\ selpc = "gate"
    /\ selexc = "none"

\* lines 40-42
SelectGate ==
    /\ selpc = "gate"
    /\ selpc' = (IF outfile.state = "present" /\ ~sredo THEN "returned" ELSE "list")
    /\ UNCHANGED << sredo, ppdir, outfile, outfile0, wfiles, wi, sidx, new, selexc,
                    nonSelVars >>

\* lines 43-44
SelectList ==
    /\ selpc = "list"
    /\ wfiles' \in Orders({ f \in FitDirListing : EndsWithWeights(f) })
    /\ wi' = 0
    /\ sidx' = <<>>
    /\ selpc' = "read"
    /\ UNCHANGED << sredo, ppdir, outfile, outfile0, new, selexc, nonSelVars >>

\* lines 45-47, one iteration
SelectRead ==
    /\ selpc = "read"
    /\ wi < Len(wfiles)
    /\ sidx' = Append(sidx, ppdir[wfiles[wi + 1]].idx)
    /\ wi' = wi + 1
    /\ UNCHANGED << sredo, ppdir, outfile, outfile0, wfiles, new, selpc, selexc,
                    nonSelVars >>

\* line 48: np.hstack of an empty list raises ValueError
SelectUnique ==
    /\ selpc = "read"
    /\ wi = Len(wfiles)
    /\ IF sidx = <<>>
       THEN /\ selpc' = "raised"
            /\ selexc' = "ValueError"
            /\ UNCHANGED sidx
       ELSE /\ sidx' = unique(hstack(sidx))
            /\ selpc' = "subsample"
            /\ UNCHANGED selexc
    /\ UNCHANGED << sredo, ppdir, outfile, outfile0, wfiles, wi, new, nonSelVars >>

\* lines 49-57
SelectSubsample ==
    /\ selpc = "subsample"
    /\ new' = [templates |-> Take(ssp_templates, sidx),
               params |-> Take(params, sidx),
               naxis2 |-> Len(sidx)]
    /\ selpc' = "write"
    /\ UNCHANGED << sredo, ppdir, outfile, outfile0, wfiles, wi, sidx, selexc,
                    nonSelVars >>

\* lines 58-62
SelectWrite ==
    /\ selpc = "write"
    /\ outfile' = [state |-> "present", templates |-> new.templates,
                   params |-> new.params, naxis2 |-> new.naxis2, stamp |-> 1]
    /\ selpc' = "returned"
    /\ UNCHANGED << sredo, ppdir, outfile0, wfiles, wi, sidx, new, selexc, nonSelVars >>

-----------------------------------------------------------------------------
(* pPXF.save, lines 139-164 *)

\* lines 145-148
rows == << "w", "galaxy", "bestfit", "ssps", "gas", "apoly", "mpoly", "goodpixels",
           "extinction", "bestsky", "noise" >>
rownames == << "wave", "flux", "bestfit", "ssps", "emission", "apoly", "mpoly",
               "goodpixels", "reddening", "sky", "noise" >>

\* line 157
rmkeys == << "matrix", "star_rfft", "lam", "star" >>

\* the attributes make_table reads, lines 287-297
scalars == << "name", "ncomp", "sol", "error", "chi2", "sn", "degree", "mdegree" >>

\* the attributes of the object: the above and two arrays save leaves alone
attrs == rows \o rmkeys \o scalars \o << "weights", "table" >>

\* the attributes that some versions of the fitter do not set
Optional == { "star_rfft", "star", "lam", "noise", "extinction" }

NoAttr == [has |-> FALSE, val |-> <<>>]

\* the value of attribute a: an array of n numbers that no other attribute holds
AttrVal(a, n) ==
    LET c == CHOOSE k \in 1..Len(attrs) : attrs[k] = a
    IN  [has |-> TRUE, val |-> [k \in 1..n |-> 100 * c + k]]

\* hasattr(self, a)
hasattr(o, a) == o[a].has

\* the mutant of the indicator: pixels counted from 1
MutIndicatorFromOne(n, gp) == [k \in 1..n |-> IF k \in Range(gp) THEN 1 ELSE 0]

\* lines 143-144: np.where(np.isin(np.arange(n), gp), 1, 0)
Indicator(n, gp) == [k \in 1..n |-> IF Arange(n)[k] \in Range(gp) THEN 1 ELSE 0]

SaveIdle ==
    /\ obj = [a \in Range(attrs) |-> NoAttr]
    /\ obj0 = obj
    /\ ptable = [r \in Range(rownames) |-> NoAttr]
    /\ sj = 0
    /\ dumped = obj
    /\ svpc = "off"

\* the object run_ppxf hands to save (line 261): arrays of one length, the
\* fit mask a sorted list of pixel numbers, no table yet
SaveInit ==
    /\ \E n \in 1..MaxPix, gp \in SUBSET (0..(MaxPix - 1)), opt \in SUBSET Optional :
          /\ gp \subseteq 0..(n - 1)
          /\ obj = [a \in Range(attrs) |->
                      IF a = "goodpixels" THEN [has |-> TRUE, val |-> SortInts(gp)]
                      ELSE IF a \in (Optional \ opt) \cup {"table"} THEN NoAttr
                      ELSE IF a \in Range(scalars) THEN AttrVal(a, 1)
                      ELSE AttrVal(a, n)]
    /\ obj0 = obj
    /\ ptable = [r \in Range(rownames) |-> NoAttr]
    /\ sj = 0
    /\ dumped = [a \in Range(attrs) |-> NoAttr]
    /\ svpc = "mask"

\* lines 143-148
SaveMask ==
    /\ svpc = "mask"
    /\ obj' = [obj EXCEPT !["goodpixels"] =
                  [has |-> TRUE,
                   val |-> Indicator(Len(obj["w"].val), obj["goodpixels"].val)]]
    /\ sj' = 0
    /\ svpc' = "rows"
    /\ UNCHANGED << obj0, ptable, dumped, nonSaveVars >>

\* lines 149-153, one iteration
SaveMoveRow ==
    /\ svpc = "rows"
    /\ sj < Len(rows)
    /\ IF hasattr(obj, rows[sj + 1])
       THEN /\ ptable' = [ptable EXCEPT ![rownames[sj + 1]] = obj[rows[sj + 1]]]
            /\ obj' = [obj EXCEPT ![rows[sj + 1]] = NoAttr]
       ELSE UNCHANGED << ptable, obj >>
    /\ sj' = sj + 1
    /\ UNCHANGED << obj0, dumped, svpc, nonSaveVars >>

\* lines 155-157
SaveSetTable ==
    /\ svpc = "rows"
    /\ sj = Len(rows)
    /\ obj' = [obj EXCEPT !["table"] = [has |-> TRUE, val |-> <<>>]]
    /\ sj' = 0
    /\ svpc' = "rmkeys"
    /\ UNCHANGED << obj0, ptable, dumped, nonSaveVars >>

\* lines 158-160, one iteration
SaveRemoveKey ==
    /\ svpc = "rmkeys"
    /\ sj < Len(rmkeys)
    /\ obj' = (IF hasattr(obj, rmkeys[sj + 1])
               THEN [obj EXCEPT ![rmkeys[sj + 1]] = NoAttr]
               ELSE obj)
    /\ sj' = sj + 1
    /\ UNCHANGED << obj0, ptable, dumped, svpc, nonSaveVars >>

\* lines 161-164
SavePickle ==
    /\ svpc = "rmkeys"
    /\ sj = Len(rmkeys)
    /\ dumped' = obj
    /\ svpc' = "done"
    /\ UNCHANGED << obj, obj0, ptable, sj, nonSaveVars >>

-----------------------------------------------------------------------------
(* rebinstd, src/WGS/stdphot.py lines 64-97 *)

\* int(a / d) for d > 0: the quotient truncated towards zero
IntQuot(a, d) == IF a >= 0 THEN a \div d ELSE -((-a) \div d)

\* len(np.arange(1, n))
ArangeLen(n) == IF n > 1 THEN n - 1 ELSE 0

\* wave[0] - np.arange(1, n)[::-1] * d
ExtraBefore(w0, n, d) == [k \in 1..ArangeLen(n) |-> w0 - (ArangeLen(n) + 1 - k) * d]

\* wave[-1] + np.arange(1, n) * d
ExtraAfter(w1, n, d) == [k \in 1..ArangeLen(n) |-> w1 + k * d]

\* np.zeros(n) for n >= 0, with z the zero of the array's values
Zeros(n, z) == [k \in 1..n |-> z]

\* the FLUX_ERR value of sample k (1-based) of the standard-star table
ErrOf(k) == 20 + k

NoTel == [WAVE |-> <<>>, FLUX |-> <<>>, FLUX_ERR |-> <<>>]

RebinIdle ==
    /\ rbredo = FALSE
    /\ rbout = FALSE
    /\ tel = NoTel
    /\ refwave = <<>>
    /\ swave = <<>>
    /\ sflux = <<>>
    /\ sfluxerr = <<>>
    /\ dw = 0
    /\ nbinsLog = <<>>
    /\ rbpc = "off"
    /\ rbexc = "none"

\* a call of rebinstd: a standard-star spectrum on an even grid of at least
\* two samples, whose first flux may be NaN, and a reference grid
RebinInit ==
    /\ rbredo \in BOOLEAN
    /\ rbout \in BOOLEAN
    /\ \E n \in 2..MaxStar, w0 \in 0..MaxCoord, d \in 1..MaxStep, f1 \in {Num(1), NaN} :
          tel = [WAVE |-> [k \in 1..n |-> w0 + (k - 1) * d],
                 FLUX |-> [k \in 1..n |-> IF k = 1 THEN f1 ELSE Num(k)],
                 FLUX_ERR |-> [k \in 1..n |-> ErrOf(k)]]
    /\ \E r0 \in 0..MaxCoord, r1 \in 0..MaxCoord :
          /\ r0 <= r1
          /\ refwave = [k \in 1..(r1 - r0 + 1) |-> r0 + k - 1]
    /\ swave = <<>>
    /\ sflux = <<>>
    /\ sfluxerr = <<>>
    /\ dw = 0
    /\ nbinsLog = <<>>
    /\ rbpc = "gate"
    /\ rbexc = "none"

\* lines 67-68
RebinGate ==
    /\ rbpc = "gate"
    /\ rbpc' = (IF rbout /\ ~rbredo THEN "returned" ELSE "read")
    /\ UNCHANGED << rbredo, rbout, tel, refwave, swave, sflux, sfluxerr, dw, nbinsLog,
                    rbexc, nonRebinVars >>

\* lines 69-76
RebinRead ==
    /\ rbpc = "read"
    /\ swave' = tel.WAVE
    /\ sflux' = [k \in 1..Len(tel.FLUX) |->
                    IF tel.FLUX[k].nan THEN Num(0) ELSE tel.FLUX[k]]
    /\ sfluxerr' = tel.FLUX_ERR
    /\ dw' = tel.WAVE[2] - tel.WAVE[1]
    /\ rbpc' = "front"
    /\ UNCHANGED << rbredo, rbout, tel, refwave, nbinsLog, rbexc, nonRebinVars >>

\* lines 79-84
RebinPadFront ==
    /\ rbpc = "front"
    /\ IF swave[1] >= refwave[1]
       THEN LET nbins == IntQuot(swave[1] - refwave[1], dw) + 5
            IN  /\ nbinsLog' = Append(nbinsLog, nbins)
                /\ swave' = ExtraBefore(swave[1], nbins, dw) \o swave
                /\ sflux' = Zeros(nbins, Num(0)) \o sflux
                /\ sfluxerr' = Zeros(nbins, 0) \o sfluxerr
       ELSE UNCHANGED << nbinsLog, swave, sflux, sfluxerr >>
    /\ rbpc' = "back"
    /\ UNCHANGED << rbredo, rbout, tel, refwave, dw, rbexc, nonRebinVars >>

\* lines 85-90: np.zeros of a negative count raises ValueError at line 89,
\* after wave was extended at line 88
RebinPadBack ==
    /\ rbpc = "back"
    /\ IF swave[1] <= refwave[1]
       THEN LET nbins == IntQuot(refwave[Len(refwave)] - swave[Len(swave)], dw) + 5
            IN  /\ nbinsLog' = Append(nbinsLog, nbins)
                /\ swave' = swave \o ExtraAfter(swave[Len(swave)], nbins, dw)
                /\ IF nbins < 0
                   THEN /\ rbpc' = "raised"
                        /\ rbexc' = "ValueError"
                        /\ UNCHANGED << sflux, sfluxerr >>
                   ELSE /\ sflux' = sflux \o Zeros(nbins, Num(0))
                        /\ sfluxerr' = sfluxerr \o Zeros(nbins, 0)
                        /\ rbpc' = "resample"
                        /\ UNCHANGED rbexc
       ELSE /\ rbpc' = "resample"
            /\ UNCHANGED << nbinsLog, swave, sflux, sfluxerr, rbexc >>
    /\ UNCHANGED << rbredo, rbout, tel, refwave, dw, nonRebinVars >>

\* lines 91-97: spectres is handed wave with flux and with fluxerr; what it
\* does with arrays of different lengths is not fixed by this code
RebinResample ==
    /\ rbpc = "resample"
    /\ \/ /\ rbpc' = "returned"
          /\ rbout' = TRUE
          /\ UNCHANGED rbexc
       \/ /\ Len(swave) # Len(sflux) \/ Len(swave) # Len(sfluxerr)
          /\ rbpc' = "raised"
          /\ rbexc' = "ValueError"
          /\ UNCHANGED rbout
    /\ UNCHANGED << rbredo, tel, refwave, swave, sflux, sfluxerr, dw, nbinsLog,
                    nonRebinVars >>

-----------------------------------------------------------------------------
(* CvDCaller, src/stpop/run_paintbox_elliot.py lines 35-50 *)

\* the parameter names a model can carry
ParNames == { "Z", "Age", "x1" }

\* sequences of at most n entries of S
SeqsUpTo(S, n) == UNION { [1..m -> S] : m \in 0..n }

\* list(dict.fromkeys(a)): the entries of a without repetition, each where it
\* first occurs
RECURSIVE fromkeys(_)
fromkeys(a) ==
    IF a = <<>> THEN <<>>
    ELSE LET rest == fromkeys(SubSeq(a, 1, Len(a) - 1))
             last == a[Len(a)]
         IN  IF last \in Range(rest) THEN rest ELSE Append(rest, last)

\* the mutant of np.where: the first position only
MutWhereFirst(a, x) ==
    LET hits == { k \in 0..(Len(a) - 1) : a[k + 1] = x }
    IN  IF hits = {} THEN <<>> ELSE << CHOOSE k \in hits : \A h \in hits : k <= h >>

\* np.where(np.array(a) == x)[0]: the positions of x in a, ascending
WhereEq(a, x) == SortInts({ k \in 0..(Len(a) - 1) : a[k + 1] = x })

\* t[ix] = val
AssignAt(a, ix, val) == [k \in 1..Len(a) |-> IF (k - 1) \in Range(ix) THEN val ELSE a[k]]

NoCaller == [parnames |-> <<>>, nparams |-> 0, shape |-> 0, idxs |-> <<>>]

CvdIdle ==
    /\ sed = [parnames |-> <<>>]
    /\ caller = NoCaller
    /\ theta = <<>>
    /\ tvec = <<>>
    /\ ck = 0
    /\ passed = <<>>
    /\ cpc = "off"

\* a model with any parameter names, repeated or not, and any theta
CvdInit ==
    /\ sed \in [parnames : SeqsUpTo(ParNames, MaxNames)]
    /\ caller = NoCaller
    /\ theta \in SeqsUpTo(1..MaxTheta, MaxNames)
    /\ tvec = <<>>
    /\ ck = 0
    /\ passed = <<>>
    /\ cpc = "new"

\* __init__, lines 36-44
CvdConstruct ==
    /\ cpc = "new"
    /\ LET parnames == fromkeys(sed.parnames)
       IN  caller' = [parnames |-> parnames,
                      nparams |-> Len(parnames),
                      shape |-> Len(sed.parnames),
                      idxs |-> [q \in Range(parnames) |-> WhereEq(sed.parnames, q)]]
    /\ cpc' = "call"
    /\ UNCHANGED << sed, theta, tvec, ck, passed, nonCvdVars >>

\* __call__, line 47
CvdZeros ==
    /\ cpc = "call"
    /\ tvec' = [k \in 1..caller.shape |-> 0]
    /\ ck' = 0
    /\ cpc' = "loop"
    /\ UNCHANGED << sed, caller, theta, passed, nonCvdVars >>

\* __call__, lines 48-49, one iteration: zip stops at the shorter of parnames
\* and theta
CvdAssign ==
    /\ cpc = "loop"
    /\ ck < Min(Len(caller.parnames), Len(theta))
    /\ tvec' = AssignAt(tvec, caller.idxs[caller.parnames[ck + 1]], theta[ck + 1])
    /\ ck' = ck + 1
    /\ UNCHANGED << sed, caller, theta, passed, cpc, nonCvdVars >>

\* __call__, line 50
CvdReturn ==
    /\ cpc = "loop"
    /\ ck = Min(Len(caller.parnames), Len(theta))
    /\ passed' = tvec
    /\ cpc' = "returned"
    /\ UNCHANGED << sed, caller, theta, tvec, ck, nonCvdVars >>

-----------------------------------------------------------------------------
(* Specifications *)

\* the driver before any call, for the specifications of the array code
DriverIdle ==
    /\ DriverInit
    /\ entry = "run_ppxf"
    /\ ncompArg = 2
    /\ dir = FileUniverse
    /\ test = FALSE

Init == DriverInit /\ MaskIdle /\ LoaderIdle /\ ArraysIdle /\ SnIdle /\ TableIdle /\ SelectIdle
    /\ SaveIdle /\ RebinIdle /\ CvdIdle

Next ==
    \/ Invoke
    \/ RunStep

Spec == Init /\ [][Next]_vars

\* the interpreter runs the invocation to its end: a sequential program
FairSpec == Spec /\ WF_vars(RunStep)

MaskNext ==
    \/ MaskStart
    \/ MaskLine
    \/ MaskNans

InitMask == DriverIdle /\ MaskInit /\ LoaderIdle /\ ArraysIdle /\ SnIdle /\ TableIdle /\ SelectIdle
    /\ SaveIdle /\ RebinIdle /\ CvdIdle

SpecMask == InitMask /\ [][MaskNext]_vars

LoaderNext ==
    \/ LoadRead
    \/ LoadRemoveZeros
    \/ LoadFixErr
    \/ LoadTrim
    \/ LoadRebinArgs

InitLoader == DriverIdle /\ MaskIdle /\ LoaderInit /\ ArraysIdle /\ SnIdle /\ TableIdle /\ SelectIdle
    /\ SaveIdle /\ RebinIdle /\ CvdIdle

SpecLoader == InitLoader /\ [][LoaderNext]_vars

ArraysNext ==
    \/ SliceMatrix
    \/ SliceWeights
    \/ Components

InitArrays == DriverIdle /\ MaskIdle /\ LoaderIdle /\ ArraysInit /\ SnIdle /\ TableIdle /\ SelectIdle
    /\ SaveIdle /\ RebinIdle /\ CvdIdle

SpecArrays == InitArrays /\ [][ArraysNext]_vars

SnNext ==
    \/ CalcSignal
    \/ CalcNoise
    \/ CalcRatio

InitSn == DriverIdle /\ MaskIdle /\ LoaderIdle /\ ArraysIdle /\ SnInit /\ TableIdle /\ SelectIdle
    /\ SaveIdle /\ RebinIdle /\ CvdIdle

SpecSN == InitSn /\ [][SnNext]_vars

TableNext ==
    \/ TableGate
    \/ TableChdir
    \/ TableList
    \/ TableLoad
    \/ TableBuild
    \/ TableWrite
    \/ TableReturn

InitTable ==
    DriverIdle /\ MaskIdle /\ LoaderIdle /\ ArraysIdle /\ SnIdle /\ TableInit /\ SelectIdle
    /\ SaveIdle /\ RebinIdle /\ CvdIdle

SpecTable == InitTable /\ [][TableNext]_vars

SelectNext ==
    \/ SelectGate
    \/ SelectList
    \/ SelectRead
    \/ SelectUnique
    \/ SelectSubsample
    \/ SelectWrite

InitSelect ==
    DriverIdle /\ MaskIdle /\ LoaderIdle /\ ArraysIdle /\ SnIdle /\ TableIdle /\ SelectInit
    /\ SaveIdle /\ RebinIdle /\ CvdIdle

SpecSelect == InitSelect /\ [][SelectNext]_vars

SaveNext ==
    \/ SaveMask
    \/ SaveMoveRow
    \/ SaveSetTable
    \/ SaveRemoveKey
    \/ SavePickle

InitSave ==
    DriverIdle /\ MaskIdle /\ LoaderIdle /\ ArraysIdle /\ SnIdle /\ TableIdle /\ SelectIdle
    /\ SaveInit /\ RebinIdle /\ CvdIdle

SpecSave == InitSave /\ [][SaveNext]_vars

RebinNext ==
    \/ RebinGate
    \/ RebinRead
    \/ RebinPadFront
    \/ RebinPadBack
    \/ RebinResample

InitRebin ==
    DriverIdle /\ MaskIdle /\ LoaderIdle /\ ArraysIdle /\ SnIdle /\ TableIdle /\ SelectIdle
    /\ SaveIdle /\ RebinInit /\ CvdIdle

SpecRebin == InitRebin /\ [][RebinNext]_vars

CvdNext ==
    \/ CvdConstruct
    \/ CvdZeros
    \/ CvdAssign
    \/ CvdReturn

InitCvd ==
    DriverIdle /\ MaskIdle /\ LoaderIdle /\ ArraysIdle /\ SnIdle /\ TableIdle /\ SelectIdle
    /\ SaveIdle /\ RebinIdle /\ CvdInit

SpecCvD == InitCvd /\ [][CvdNext]_vars

-----------------------------------------------------------------------------
(* Properties of the driver *)

\* every .fits file of the directory has a file at its result path
AllHaveOutput == \A f \in dir : EndsWithFits(f) => Exists(NameOf(f))

\* the result path of f held no file when the invocation began
LackedAtStart(f) == snap[NameOf(f)].state = "absent"

\* the steps of the loop body
BodySteps == {"read", "prepare", "fit", "decompose", "plot", "save_open", "save_dump"}

\* C1: a spectrum whose output exists is skipped when redo is false: the
\* fitter is not invoked and no file changes; with redo true a run that
\* returns has fitted every spectrum and rewritten every output in this run;
\* a run with redo false that follows a completed run invokes the fitter for
\* no spectrum and changes no file.
C1_GateIdempotent ==
    /\ [][ (pc = "gate" /\ i <= Len(filenames) /\ ~redo
              /\ Exists(NameOf(filenames[i])))
           => (fitcalls' = fitcalls /\ out' = out /\ pngs' = pngs
                 /\ pc' = "gate" /\ i' = i + 1) ]_vars
    /\ [](pc = "returned" /\ redo
           => /\ fitcalls = filenames
              /\ \A k \in 1..Len(filenames) :
                    /\ out[NameOf(filenames[k])].state = "complete"
                    /\ out[NameOf(filenames[k])].run = run)
    /\ [](run >= 2 /\ ~redo /\ prev.end = "returned"
           => fitcalls = <<>> /\ out = snap)
    /\ [][ (run >= 2 /\ ~redo /\ prev.end = "returned" /\ run' = run)
           => (out' = out /\ pngs' = pngs) ]_vars

\* C1 witness: a second run with redo false, after a completed first run over
\* several spectra, has returned without a fit
C1_Witness ==
    /\ run = 2 /\ ~redo /\ prev.end = "returned" /\ pc = "returned"
    /\ Len(filenames) >= 2
    /\ fitcalls = <<>>
    /\ \A k \in 1..Len(filenames) : out[NameOf(filenames[k])].state = "complete"

\* C2: when the fitter raises for a spectrum, the exception reaches the
\* caller, and the result files are what they were when the loop reached that
\* spectrum: none was written for it, the earlier ones are untouched.
C2_FitRaisePropagates ==
    failed.step = "fit"
        => /\ pc = "raised"
           /\ exc \in {"FitError", "NameError"}
           /\ out = outAtGate

\* C2 witness: the fitter raised for the second spectrum after the first
\* one's result was written in this run
C2_Witness ==
    /\ failed.step = "fit" /\ exc = "FitError"
    /\ i = 2
    /\ out[NameOf(filenames[1])].state = "complete"
    /\ out[NameOf(filenames[1])].run = run
    /\ NameOf(filenames[1]) # NameOf(filenames[2])

\* C3 (as claimed): after a failure in the processing of a spectrum no file
\* exists at the path the gate checks for it.
C3_NoOutputAfterFailure ==
    failed.step \in BodySteps => ~Exists(NameOf(failed.name))

\* C4 (as claimed): a data or I/O error while reading or preparing a
\* spectrum does not end the batch.
C4_DataErrorContinues ==
    failed.step \in {"read", "prepare"} => pc # "raised"

C6_CountsMatchColumns ==
    pp.tagged
        => /\ pp.ntemplates + pp.ngas = pp.ncols
           /\ templates = Rep(pp.ntemplates, "star") \o Rep(pp.ngas, "gas")

\* C7 (as claimed): under run_stellar_populations the fitter gets, for count
\* 1, stellar templates labelled 0 and one row of bounds and of start values,
\* for count 2, stellar and gas templates labelled 0 and 1 and two rows; the
\* number of labels equals the number of rows.
C7_ConfigByCount ==
    (entry = "run_stellar_populations" /\ pc = "fit")
        => LET labels == Range(kwargs.component)
           IN  /\ Cardinality(labels) = kwargs.boundsRows
               /\ Cardinality(labels) = kwargs.startRows
               /\ ncompArg = 1
                    => /\ templates = Rep(nstars, "star")
                       /\ labels = {0}
                       /\ kwargs.boundsRows = 1
               /\ ncompArg = 2
                    => /\ templates = Rep(nstars, "star") \o Rep(ngas, "gas")
                       /\ labels = {0, 1}
                       /\ kwargs.boundsRows = 2

\* C8 (as claimed): with a component count other than 1 and 2 the call fails
\* before the working directory is changed, the log directory is created, a
\* spectrum is read or an output is written.
C8_RejectedAtStart ==
    (ncompArg \notin {1, 2})
        => /\ pc \in {"idle", "rsp_config", "rsp_call", "templates", "config",
                     "chdir", "raised"}
           /\ failed.step \in {"none", "rsp_call", "templates", "config"}
           /\ cwd = "home"
           /\ ~logdir
           /\ \A p \in Paths : ~Exists(p)

-----------------------------------------------------------------------------
(* Properties of the mask builder *)

\* C9: index i of the rebinned grid is in the mask iff the flux at i is not
\* NaN and the wavelength at i is outside the closed window [L-15, L+15] of
\* every sky line L; the mask is strictly increasing.
C9_MaskExact ==
    mpc = "done"
        => /\ \A k \in 0..(Len(lam) - 1) :
                 k \in Range(goodpixels)
                    <=> /\ galaxy[k + 1] # "nan"
                        /\ \A L \in {4785, 5577, 5889, 6300, 6863} :
                              ~(L - 15 <= lam[k + 1] /\ lam[k + 1] <= L + 15)
           /\ Range(goodpixels) \subseteq 0..(Len(lam) - 1)
           /\ Increasing(goodpixels)

\* C9 witness: a finished mask of a grid with a pixel on the edge of a window,
\* a NaN pixel outside every window, and a pixel that is kept
C9_Witness ==
    /\ mpc = "done"
    /\ \E k \in 1..Len(lam) : lam[k] = 4770 /\ galaxy[k] = "num"
    /\ \E k \in 1..Len(lam) : lam[k] = 5000 /\ galaxy[k] = "nan"
    /\ goodpixels # <<>>

-----------------------------------------------------------------------------
(* Properties of the loader *)

\* the zero-flux samples of the table that lie between two non-zero samples
InteriorZeros ==
    { k \in 1..Len(data.FLUX) :
        /\ ~NeZero(data.FLUX[k])
        /\ \E j \in 1..(k - 1) : NeZero(data.FLUX[j])
        /\ \E j \in (k + 1)..Len(data.FLUX) : NeZero(data.FLUX[j]) }

\* C10 (as claimed): the zero filter keeps a zero-flux sample that lies
\* between two non-zero samples, with its wavelength and uncertainty.
C10_InteriorZeroKept ==
    lpc = "errfix"
        => \A k \in InteriorZeros :
              \E j \in 1..Len(wave) :
                 /\ wave[j] = ToAngstrom(data.WAVE[k])
                 /\ flux[j] = data.FLUX[k]
                 /\ fluxerr[j] = data.FLUX_ERR[k]

\* the rows of the table (1-based) whose flux passes the zero filter
NonZeroRows == { k \in 1..Len(data.FLUX) : NeZero(data.FLUX[k]) }

\* C11 (as claimed): in the uncertainty array handed to the rebinner every
\* uncertainty that was zero is the largest non-zero uncertainty of the
\* samples that passed the zero filter, every other one is unchanged, and no
\* entry is zero.
C11_NoZeroUncertainty ==
    lpc = "rebinning"
        => /\ \A j \in 1..Len(fluxerr) : fluxerr[j] # 0
           /\ \A j \in 1..Len(fluxerr) :
                 \E k \in NonZeroRows :
                    /\ wave[j] = ToAngstrom(data.WAVE[k])
                    /\ IF data.FLUX_ERR[k] # 0
                       THEN fluxerr[j] = data.FLUX_ERR[k]
                       ELSE /\ \E r \in NonZeroRows : fluxerr[j] = data.FLUX_ERR[r]
                            /\ \A r \in NonZeroRows : data.FLUX_ERR[r] <= fluxerr[j]

\* the rows of the table (1-based, ascending) that the loader is to retain:
\* non-zero flux, wavelength strictly inside the template grid
KeptRows ==
    LET Keep(k) ==
            /\ NeZero(data.FLUX[k])
            /\ wave_temp[1] < ToAngstrom(data.WAVE[k])
            /\ ToAngstrom(data.WAVE[k]) < wave_temp[Len(wave_temp)]
    IN  SelectSeq([k \in 1..Len(data.FLUX) |-> k], Keep)

\* the loader is past the trimming of lines 219-224
Trimmed == lpc \in {"rebin", "rebinning"} \/ (lpc = "raised" /\ lexc = "IndexError")

\* C12: after the trimming the three arrays have the same length and hold,
\* in the order of the table, exactly the rows with non-zero flux and a
\* wavelength strictly inside the template grid, each with its own
\* wavelength, flux and (when it was not zero) uncertainty.
C12_TrimAligned ==
    Trimmed
        => /\ Len(wave) = Len(KeptRows)
           /\ Len(flux) = Len(KeptRows)
           /\ Len(fluxerr) = Len(KeptRows)
           /\ \A j \in 1..Len(KeptRows) :
                 /\ wave[j] = ToAngstrom(data.WAVE[KeptRows[j]])
                 /\ flux[j] = data.FLUX[KeptRows[j]]
                 /\ data.FLUX_ERR[KeptRows[j]] # 0
                      => fluxerr[j] = data.FLUX_ERR[KeptRows[j]]

\* C12 witness: a trimmed spectrum that lost one row to the zero filter and
\* one row that lies on an end of the template grid, and kept one
C12_Witness ==
    /\ lpc = "rebin"
    /\ Len(wave) >= 1
    /\ \E k \in 1..Len(data.FLUX) : ~NeZero(data.FLUX[k])
    /\ \E k \in NonZeroRows :
          ToAngstrom(data.WAVE[k]) \in {wave_temp[1], wave_temp[Len(wave_temp)]}

\* C13 (as claimed): the rebinner is not called on a spectrum with fewer
\* than a minimum viable number of samples (two, for a wavelength range).
C13_TooFewRejected ==
    lpc = "rebinning" => Len(wave) >= 2

\* C13 (amended): only an empty spectrum is rejected, and by the array
\* operations themselves: when no row passes the zero filter the loader stops
\* at line 216 with ValueError, when rows pass it but none lies inside the
\* template grid it stops at line 226 with IndexError, in both cases before
\* the rebinner is called; any spectrum with at least one retained row
\* reaches the rebinner.
C13_EmptyRejected ==
    /\ lpc = "rebinning" => (Len(wave) >= 1 /\ KeptRows # <<>>)
    /\ lpc = "raised"
         => /\ KeptRows = <<>>
            /\ lexc = (IF NonZeroRows = {} THEN "ValueError" ELSE "IndexError")
    /\ NonZeroRows = {} => lpc \in {"read", "zeros", "errfix", "raised"}
    /\ KeptRows = <<>> => lpc # "rebinning"

\* C13 witness: a table whose rows have flux but lie outside the template
\* grid stopped the loader at line 226
C13_Witness ==
    /\ lpc = "raised" /\ lexc = "IndexError"
    /\ Len(data.FLUX) >= 2
    /\ NonZeroRows = 1..Len(data.FLUX)

-----------------------------------------------------------------------------
(* Properties of the decomposer *)

\* C14: the four column slices of calc_arrays are, in the order polynomial,
\* stellar, gas, sky, a partition of the columns into contiguous runs; the
\* three weight slices likewise partition the weight vector; and when the
\* matrix has (degree + 1) + len(weights) columns each template slice has as
\* many columns as its weight slice has entries.
C14_SlicesPartition ==
    apc \in {"dot", "done", "raised"}
        => /\ arr.mpoly \o arr.ssps \o arr.gas \o arr.sky = self.matrix
           /\ Len(arr.mpoly) = Min(self.degree + 1, Len(self.matrix))
           /\ Len(arr.ssps) = Min(self.ntemplates, Len(self.matrix) - Len(arr.mpoly))
           /\ arr.star_weights \o arr.gas_weights \o arr.sky_weights = self.weights
           /\ Len(arr.star_weights) = Min(self.ntemplates, Len(self.weights))
           /\ Len(self.matrix) = (self.degree + 1) + Len(self.weights)
                => /\ Len(arr.ssps) = Len(arr.star_weights)
                   /\ Len(arr.gas) = Len(arr.gas_weights)
                   /\ Len(arr.sky) = Len(arr.sky_weights)
                   /\ apc # "raised"

\* C14 witness: a decomposed matrix of degree + 1 + len(weights) columns with
\* polynomial, stellar, gas and sky columns
C14_Witness ==
    /\ apc = "done"
    /\ Len(self.matrix) = (self.degree + 1) + Len(self.weights)
    /\ arr.mpoly # <<>> /\ arr.ssps # <<>> /\ arr.gas # <<>> /\ arr.sky # <<>>

\* C15 (as claimed): when the clipped residual has zero standard deviation
\* the signal-to-noise is an infinity, never NaN, whatever the median signal.
C15_ZeroNoiseIsInfinite ==
    (spc = "done" /\ snout.meannoise = "zero") => snout.sn \in {"inf", "-inf"}

-----------------------------------------------------------------------------
(* Properties of make_table *)

\* the extension of f is .pkl
HasPklExt(f) == f[Len(f)] = ".pkl"

\* the files of the log directory whose extension is .pkl, sorted
ResultFiles == SelectSeq(Sorted(TableListing), HasPklExt)

\* C16 (as claimed): a call of make_table that is not skipped at the gate, on
\* an existing log directory whose .pkl files are all completely written and
\* that holds no other file ending in pkl, returns having written one row per
\* .pkl file, named after it, also when there is no .pkl file.
C16_RowPerResult ==
    ( /\ tpc \in {"returned", "raised"}
      /\ ~(summary0.state = "present" /\ ~tredo)
      /\ tlogdir
      /\ \A f \in TableListing : EndsWithPkl(f) => tfiles[f].state = "complete" )
        => /\ tpc = "returned"
           /\ summary.stamp = 1
           /\ Len(summary.rows) = Len(ResultFiles)
           /\ \A j \in 1..Len(ResultFiles) : summary.rows[j].spec = Stem(ResultFiles[j])
           /\ Range(opened) = Range(ResultFiles)

\* C17: every row of the table make_table builds holds, for the fit named in
\* the row, positions 0..3 of the solution of component 0 as v, sigma, h3, h4,
\* each paired with the uncertainty of component 0 at the same position.
C17_RowPairsSameComponent ==
    \A j \in 1..Len(table) :
       LET r == table[j]
           Is(x, q, k) == x = Entry(q, r.spec, 0, k)
       IN  /\ r.spec = Stem(pkls[j])
           /\ Is(r.v, "sol", 0) /\ Is(r.verr, "error", 0)
           /\ Is(r.sigma, "sol", 1) /\ Is(r.sigmaerr, "error", 1)
           /\ Is(r.h3, "sol", 2) /\ Is(r.h3err, "error", 2)
           /\ Is(r.h4, "sol", 3) /\ Is(r.h4err, "error", 3)
           /\ r.v = Unpickled(pkls[j], tfiles[pkls[j]].ncomp).sol.v[1][1]
           /\ r.verr = Unpickled(pkls[j], tfiles[pkls[j]].ncomp).error.v[1][1]

\* C17 witness: a written summary with a row of a one-component fit and a row
\* of a fit of several components
C17_Witness ==
    /\ tpc = "returned"
    /\ summary.stamp = 1
    /\ summary.rows = table
    /\ \E f, g \in Range(pkls) : tfiles[f].ncomp = 1 /\ tfiles[g].ncomp > 1

\* C18: when the summary exists and redo is false make_table returns at the
\* gate: no file is opened, the working directory never changes, the summary
\* stays as it was; when redo is true the gate never skips, and a call that
\* returns has overwritten the summary with the table it rebuilt.
C18_TableGate ==
    /\ (summary0.state = "present" /\ ~tredo)
          => /\ tpc \in {"gate", "returned"}
             /\ opened = <<>>
             /\ tcwd = "home"
             /\ summary = summary0
             /\ texc = "none"
    /\ (tredo \/ summary0.state = "absent")
          => /\ tpc = "returned" => /\ summary = [state |-> "present", rows |-> table,
                                                  stamp |-> 1]
                                    /\ table = TableRows(acc)
                                    /\ Len(table) = Len(pkls)
                                    /\ Range(opened) = Range(pkls)

\* C18 witness: a call skipped at the gate while results wait in the log
\* directory
C18_Witness ==
    /\ tpc = "returned"
    /\ summary0.state = "present"
    /\ ~tredo
    /\ \E f \in Range(ListPkls) : tfiles[f].state = "complete"

-----------------------------------------------------------------------------
(* Properties of select_templates *)

\* the template numbers that appear in at least one weights file
UsedIdx ==
    UNION { Range(ppdir[f].idx) : f \in { g \in FitDirListing : EndsWithWeights(g) } }

\* the subsample file holds exactly the rows of UsedIdx, ascending, once each,
\* row j of the parameters being the bank row of row j of the templates
Reduced(o) ==
    /\ o.state = "present"
    /\ o.templates = [j \in 1..Cardinality(UsedIdx) |-> SspRow(SortInts(UsedIdx)[j])]
    /\ Len(o.params) = Len(o.templates)
    /\ \A j \in 1..Len(o.templates) : o.params[j].row = o.templates[j].row
    /\ o.naxis2 = Len(o.templates)

\* C19 (as claimed): whenever select_templates has returned, the subsample
\* file holds exactly the templates used by some weights file.
C19_AlwaysReduced == selpc = "returned" => Reduced(outfile)

\* C19 (amended): a call that is not skipped at the gate and finds a weights
\* file returns with the subsample file reduced to the used templates; a call
\* with an existing subsample file and redo false returns that file as it
\* was; a call that finds no weights file raises ValueError and writes nothing.
C19_ReducedWhenBuilt ==
    LET gated == outfile0.state = "present" /\ ~sredo
        noweights == { f \in FitDirListing : EndsWithWeights(f) } = {}
    IN  /\ gated => (selpc \in {"gate", "returned"} /\ outfile = outfile0)
        /\ (~gated /\ ~noweights)
              => /\ selpc # "raised"
                 /\ selpc = "returned" => (Reduced(outfile) /\ outfile.stamp = 1)
        /\ (~gated /\ noweights)
              => /\ selpc # "returned"
                 /\ outfile = outfile0
                 /\ selpc = "raised" => selexc = "ValueError"

\* C19 witness: a subsample built from two weights files that share a template
\* and list the templates out of order, beside a table that is no weights file
C19_Witness ==
    /\ selpc = "returned"
    /\ outfile.stamp = 1
    /\ Len(wfiles) = 2
    /\ Range(sidx) # 0..(NBank - 1)
    /\ Range(ppdir[wfiles[1]].idx) \cap Range(ppdir[wfiles[2]].idx) # {}
    /\ \E f \in Range(wfiles) : Len(ppdir[f].idx) = 2 /\ ppdir[f].idx[1] > ppdir[f].idx[2]
    /\ \E f \in FitDirListing : ~EndsWithWeights(f) /\ ~(Range(ppdir[f].idx) \subseteq UsedIdx)

-----------------------------------------------------------------------------
(* Properties of pPXF.save *)

\* C20: the object save pickles has none of the attributes of rows and rmkeys;
\* every attribute of rows it had is a column of the table, under its row
\* name, with its value; every scalar make_table reads has the value it had
\* before save; and the goodpixels column has one entry per wavelength sample,
\* 1 at the pixels of the fit mask and 0 elsewhere.
C20_SaveFrame ==
    svpc = "done"
       => /\ \A a \in Range(rows) \cup Range(rmkeys) : ~dumped[a].has
          /\ dumped["table"].has
          /\ \A j \in 1..Len(rows) :
                IF rows[j] = "goodpixels"
                THEN LET col == ptable["goodpixels"].val
                     IN  /\ Len(col) = Len(obj0["w"].val)
                         /\ \A k \in 0..(Len(col) - 1) :
                               col[k + 1] = (IF k \in Range(obj0["goodpixels"].val)
                                             THEN 1 ELSE 0)
                ELSE ptable[rownames[j]] = obj0[rows[j]]
          /\ \A a \in Range(scalars) : dumped[a].has /\ dumped[a] = obj0[a]
          /\ dumped["weights"] = obj0["weights"]

\* C20 witness: a saved object whose fit mask held some pixels but not all,
\* not the first, and that carried the design matrix
C20_Witness ==
    /\ svpc = "done"
    /\ obj0["matrix"].has
    /\ obj0["goodpixels"].val # <<>>
    /\ 0 \notin Range(obj0["goodpixels"].val)
    /\ Len(obj0["goodpixels"].val) < Len(obj0["w"].val)

-----------------------------------------------------------------------------
(* Properties of rebinstd *)

\* C21 (as claimed): the wavelength, flux and uncertainty arrays handed to the
\* resampler have one length, and every sample of the standard-star table
\* stands at one index with its own wavelength and flux.
C21_PaddedAligned ==
    rbpc = "resample"
       => /\ Len(swave) = Len(sflux)
          /\ Len(swave) = Len(sfluxerr)
          /\ \A p \in 1..Len(sfluxerr) : \A k \in 1..Len(tel.WAVE) :
                sfluxerr[p] = ErrOf(k)
                   => /\ p <= Len(swave) /\ swave[p] = tel.WAVE[k]
                      /\ p <= Len(sflux)
                      /\ sflux[p] = (IF tel.FLUX[k].nan THEN Num(0) ELSE tel.FLUX[k])

\* C22 (as claimed): no padding step computes a negative bin count, and the
\* grid handed to the resampler rises by the original step from at or before
\* the first reference wavelength to at or after the last.
C22_PaddingCovers ==
    /\ \A j \in 1..Len(nbinsLog) : nbinsLog[j] >= 0
    /\ rbpc = "resample"
          => /\ \A p \in 1..(Len(swave) - 1) : swave[p + 1] = swave[p] + dw
             /\ swave[1] <= refwave[1]
             /\ swave[Len(swave)] >= refwave[Len(refwave)]

-----------------------------------------------------------------------------
(* Properties of the working directory and of the result paths *)

\* C23 (as claimed): whenever an invocation of run_ppxf has ended, by return
\* or by an exception, the working directory is the one it was entered with.
C23_CwdRestored == Terminated => cwd = prev.cwd

\* C24 (as claimed): a result file at a path is the result of every spectrum
\* of the directory whose name maps to that path: no two .fits files share a
\* result path, so none finds there the output of another.
C24_OwnResultPath ==
    \A f \in dir :
       (EndsWithFits(f) /\ Exists(NameOf(f)) /\ out[NameOf(f)].run > 0)
          => out[NameOf(f)].by = f

-----------------------------------------------------------------------------
(* Properties of CvDCaller *)

\* the 1-based position of name x in the list a of distinct names
IndexIn(a, x) == CHOOSE j \in 1..Len(a) : a[j] = x

\* the 1-based position where x first occurs in a
FirstPos(a, x) == CHOOSE k \in 1..Len(a) : a[k] = x /\ \A h \in 1..(k - 1) : a[h] # x

\* C25: the caller's names are the model's names without repetition, in the
\* order of first occurrence; and when theta has one entry per such name, the
\* vector given to the model has, at every position i, the entry of theta at
\* the index of the name of position i.
C25_ThetaExpanded ==
    /\ cpc # "new"
          => /\ Range(caller.parnames) = Range(sed.parnames)
             /\ \A j, k \in 1..Len(caller.parnames) :
                   j < k => FirstPos(sed.parnames, caller.parnames[j])
                               < FirstPos(sed.parnames, caller.parnames[k])
             /\ caller.nparams = Cardinality(Range(sed.parnames))
    /\ (cpc = "returned" /\ Len(theta) = caller.nparams)
          => /\ Len(passed) = Len(sed.parnames)
             /\ \A n \in 1..Len(sed.parnames) :
                   passed[n] = theta[IndexIn(caller.parnames, sed.parnames[n])]
             /\ \A n, m \in 1..Len(sed.parnames) :
                   sed.parnames[n] = sed.parnames[m] => passed[n] = passed[m]

\* C25 witness: a model whose first name comes again after another name,
\* called with one distinct value per name
C25_Witness ==
    /\ cpc = "returned"
    /\ Len(theta) = caller.nparams
    /\ Len(sed.parnames) = 3
    /\ sed.parnames[1] = sed.parnames[3]
    /\ sed.parnames[1] # sed.parnames[2]
    /\ theta[1] # theta[2]

====
